---- MODULE Spec2Model ----
(***************************************************************************)
(* Team reassignment core of glyd-team-reassignment: seed derivation       *)
(* (SeedManager), the seeded generator (DeterministicRandom), scoring      *)
(* (MetricsCalculator), the snake build and the swap optimizer             *)
(* (TeamBalancer), and TeamShuffler.assignTeams that chains them.          *)
(*                                                                         *)
(* Numbers.  A JavaScript number that holds an integer is the pair         *)
(* <<hi, lo>> with value hi * 2^16 + lo and 0 <= lo < 2^16; hi is any      *)
(* integer, so negative values and values up to 2^32 and beyond are        *)
(* exact.  Scores are exact rationals: a composite score is an integer     *)
(* count of 1/ScoreScale units, and a mean or a coefficient is a pair      *)
(* <<numerator, denominator>>.  Floating-point rounding is not modelled.   *)
(***************************************************************************)
EXTENDS Integers, Sequences, FiniteSets, TLC

VARIABLES
  pc,               \* position of the call in progress
  clock,            \* Date.now()
  players,          \* assignTeams: the players argument
  targetTeams,      \* assignTeams: the targetTeams argument
  optimizeBalance,  \* assignTeams: the optimizeBalance argument
  userSeed,         \* TeamShuffler.seed (constructor argument), or Undefined
  playerIds,        \* the id array handed to SeedManager.generateDataSeed
  dataSeed,         \* const dataSeed of assignTeams
  finalSeed,        \* const finalSeed of assignTeams
  rng,              \* TeamShuffler.rng: the generator state, or Undefined
  playersWithScores,\* const playersWithScores of assignTeams
  teams,            \* the initial assignment: the array handed to optimizeTeamBalance
  maxIterations,    \* optimizeTeamBalance: the maxIterations argument
  currentTeams,     \* optimizeTeamBalance: let currentTeams
  currentBalance,   \* optimizeTeamBalance: currentBalance.balance_coefficient
  bestTeams,        \* optimizeTeamBalance: let bestTeams
  bestBalance,      \* optimizeTeamBalance: bestBalance.balance_coefficient
  iterations,       \* optimizeTeamBalance: let iterations
  loopI,            \* optimizeTeamBalance: the loop variable i
  optimization,     \* what optimizeTeamBalance returned, or Undefined
  result,           \* what assignTeams returned, or Undefined
  thrown,           \* the error assignTeams threw, or ""
  first,            \* the finished first call of a pair of calls, or Undefined
  totalPlayers,     \* DataValidator: the totalPlayers argument
  expectedTeamSizes,\* what calculateExpectedTeamSizes returned, or Undefined
  rankResult,       \* what rankPlayersByScore returned, or Undefined
  shuffleArray,     \* DeterministicRandom.shuffle: the array argument
  shuffleResult,    \* what shuffle returned, or Undefined
  rateLimitTracker, \* security.ts: the Map rateLimitTracker, client id to entry
  lastCall,         \* the last checkRateLimit call: its client id and outcome
  allowedInWindow   \* the calls let through in the window of each client (history)

seedVars == <<playerIds, dataSeed, finalSeed, rng>>

callVars == <<players, targetTeams, optimizeBalance, userSeed>>

optVars == <<currentTeams, currentBalance, bestTeams, bestBalance, iterations, loopI, optimization>>

utilVars == <<totalPlayers, expectedTeamSizes, rankResult, shuffleArray, shuffleResult>>

rateVars == <<rateLimitTracker, lastCall, allowedInWindow>>

vars == <<pc, clock, callVars, seedVars, playersWithScores, teams, maxIterations, optVars,
          result, thrown, first, utilVars, rateVars>>

Undefined == <<>>

----------------------------------------------------------------------------
(* Bounds of the model *)

MaxSeedId == 3        \* SpecSeed: id lists are duplicate-free lists over 1..MaxSeedId

MaxPlayers == 3       \* assignTeams: 0..MaxPlayers players, with ids 1..n in any order

MaxAttr == 1          \* historical_event_engagements of a player is in 0..MaxAttr

MaxOptPlayers == 3    \* SpecOpt: the input teams hold 0..MaxOptPlayers players in all

MaxOptTeams == 3      \* SpecOpt: 1..MaxOptTeams input teams

MaxIter == 3          \* SpecOpt: maxIterations is in 0..MaxIter

----------------------------------------------------------------------------
(* Integer-valued JavaScript numbers *)

\* an array that has been built: the elements are computed once, here, and not
\* again on every read of the array
Built(array) == CASE array = array -> array

Limb == 2^16

Norm(hi, lo) == <<hi + (lo \div Limb), lo % Limb>>

NumOf(n) == Norm(0, n)

NumAdd(a, b) == Norm(a[1] + b[1], a[2] + b[2])

NumSub(a, b) == Norm(a[1] - b[1], a[2] - b[2])

\* ToInt32 of ECMAScript: the value modulo 2^32, taken in -2^31 .. 2^31-1
ToInt32(a) == <<((a[1] + 2^15) % Limb) - 2^15, a[2]>>

\* ToUint32 of ECMAScript: the value modulo 2^32, taken in 0 .. 2^32-1
ToUint32(a) == <<a[1] % Limb, a[2]>>

Bit(x, i) == (x \div 2^i) % 2

XorBit == [a \in 0..1 |-> [b \in 0..1 |-> (a + b) % 2]]

AndBit == [a \in 0..1 |-> [b \in 0..1 |-> a * b]]

\* a bitwise operator on four bits, tabulated from its table for one bit
BitOp4(op) ==
  Built([x \in 0..15 |-> Built([y \in 0..15 |->
      op[Bit(x, 0)][Bit(y, 0)]
    + op[Bit(x, 1)][Bit(y, 1)] * 2
    + op[Bit(x, 2)][Bit(y, 2)] * 4
    + op[Bit(x, 3)][Bit(y, 3)] * 8])])

Xor4 == BitOp4(XorBit)

And4 == BitOp4(AndBit)

\* a bitwise operator on sixteen bits, four bits at a time
BitOp16(op4, x, y) ==
    op4[x % 16][y % 16]
  + op4[(x \div 16) % 16][(y \div 16) % 16] * 16
  + op4[(x \div 256) % 16][(y \div 256) % 16] * 256
  + op4[(x \div 4096) % 16][(y \div 4096) % 16] * 4096

\* a binary bitwise operator of JavaScript: both operands through ToInt32,
\* the result an int32
BitOp32(op4, a, b) ==
  ToInt32(<<BitOp16(op4, ToUint32(a)[1], ToUint32(b)[1]), BitOp16(op4, a[2], b[2])>>)

\* x << 5
ShiftLeft5(a) == ToInt32(Norm(32 * ToInt32(a)[1], 32 * a[2]))

\* x >>> 0
UnsignedShift0(a) == ToUint32(a)

MathAbs(a) == IF a[1] < 0 THEN Norm(-a[1], -a[2]) ELSE a

AllOnes32 == <<Limb - 1, Limb - 1>>     \* 0xffffffff

----------------------------------------------------------------------------
(* Array helpers *)

Range(s) == {s[i] : i \in 1..Len(s)}

\* Array.prototype.sort with a comparator that is a strict weak order;
\* before[i][j] tells whether s[i] compares before s[j].  The sort is stable, so
\* the element at index i lands after every element that compares before it
\* and after every equal element of a smaller index
SortBy(s, before) ==
  LET n == Len(s)
      rank(i) == Cardinality({j \in 1..n :
                    \/ before[j][i]
                    \/ (~before[i][j] /\ j < i)}) + 1
  IN  Built([p \in 1..n |-> s[CHOOSE i \in 1..n : rank(i) = p]])

----------------------------------------------------------------------------
(* SeedManager *)

IdBefore(a, b) == a < b

\* sortedIdsCopy with the sort left out: the ids are folded in the order given
sortedIdsCopyUnsorted(ids) == [sortedIds |-> ids, playerIds |-> ids]

\* const sortedIds = [...playerIds].sort((a, b) => a - b): the sorted copy, and
\* the argument array as the call leaves it
sortedIdsCopy(ids) ==
  [sortedIds |-> SortBy(ids, [i \in 1..Len(ids) |-> [j \in 1..Len(ids) |-> IdBefore(ids[i], ids[j])]]),
   playerIds |-> ids]

\* hashStep with the id left out of the sum
hashStepWithoutId(hash, id) ==
  BitOp32(And4, NumSub(ShiftLeft5(hash), hash), AllOnes32)

\* hash = ((hash << 5) - hash + id) & 0xffffffff
hashStep(hash, id) ==
  BitOp32(And4, NumAdd(NumSub(ShiftLeft5(hash), hash), NumOf(id)), AllOnes32)

\* sortedIds.forEach(...): the hash after the first n ids, from hash = 0
RECURSIVE hashFold(_, _)
hashFold(ids, n) ==
  IF n = 0 THEN NumOf(0)
  ELSE LET hash == hashFold(ids, n - 1)
       IN  CASE hash \in Int \X Int -> hashStep(hash, ids[n])

generateDataSeed(ids) ==
  LET sortedIds == sortedIdsCopy(ids).sortedIds
  IN  MathAbs(hashFold(sortedIds, Len(sortedIds)))

\* combineSeed without the unsigned shift: the int32 of the XOR is returned
combineSeedSigned(seed, data) ==
  IF seed = Undefined THEN data
  ELSE BitOp32(Xor4, seed, data)

\* combineSeed with the time of the call for a missing caller seed
combineSeedOfClock(seed, data) ==
  IF seed = Undefined THEN NumOf(clock)
  ELSE UnsignedShift0(BitOp32(Xor4, seed, data))

combineSeed(seed, data) ==
  IF seed = Undefined THEN data
  ELSE UnsignedShift0(BitOp32(Xor4, seed, data))

----------------------------------------------------------------------------
(* DeterministicRandom.  seedrandom is an npm dependency: its generator is   *)
(* represented by a full-period linear congruential generator over           *)
(* 0 .. RngModulus-1, keyed by the decimal string of the seed, which is one  *)
(* string per number.                                                        *)

RngModulus == 2^4

\* seedrandom(seed.toString()): the generator state of a fresh instance
seedrandom(seedNumber) == (seedNumber[1] + seedNumber[2]) % RngModulus

\* new DeterministicRandom(seed): Date.now() stands in for a missing seed
newDeterministicRandom(seed, now) ==
  IF seed # Undefined THEN seedrandom(seed) ELSE seedrandom(NumOf(now))

\* this.rng(): a draw is state / RngModulus in [0,1); the state advances
rngAdvance(state) == (5 * state + 3) % RngModulus

\* Math.floor(this.random() * (max - min + 1)) + min
randomInt(state, min, max) == ((state * (max - min + 1)) \div RngModulus) + min

\* SwapAt with the second assignment lost
SwapAtOneWay(a, i, j) == [a EXCEPT ![i] = a[j]]

\* [shuffled[i], shuffled[j]] = [shuffled[j], shuffled[i]], 1-based
SwapAt(a, i, j) == [a EXCEPT ![i] = a[j], ![j] = a[i]]

\* the Fisher-Yates loop of shuffle from 0-based index i down to 1, on the
\* copy; returns the array and the generator state
RECURSIVE shuffleFrom(_, _, _)
shuffleFrom(shuffled, state, i) ==
  IF i <= 0 THEN [array |-> shuffled, rng |-> state]
  ELSE LET j == randomInt(state, 0, i)
           next == SwapAt(shuffled, i + 1, j + 1)
       IN  CASE Len(next) = Len(shuffled) ->
                  shuffleFrom(next, rngAdvance(state), i - 1)

shuffle(array, state) == shuffleFrom(array, state, Len(array) - 1)

----------------------------------------------------------------------------
(* MetricsCalculator *)

RECURSIVE SeqSum(_, _)
SeqSum(s, n) == IF n = 0 THEN 0 ELSE s[n] + SeqSum(s, n - 1)

SeqMin(s) == CHOOSE x \in Range(s) : \A y \in Range(s) : x <= y

SeqMax(s) == CHOOSE x \in Range(s) : \A y \in Range(s) : x >= y

RECURSIVE Gcd(_, _)
Gcd(a, b) == IF b = 0 THEN a ELSE Gcd(b, a % b)

Lcm(a, b) == (a * b) \div Gcd(a, b)

RECURSIVE LcmUpTo(_)
LcmUpTo(n) == IF n <= 1 THEN 1 ELSE Lcm(n, LcmUpTo(n - 1))

\* a normalized attribute value is an integer count of 1/NormScale, a composite
\* score an integer count of 1/ScoreScale
NormScale == Lcm(2, LcmUpTo(MaxAttr))

ScoreScale == 10 * NormScale

\* DEFAULT_WEIGHTS, in tenths
DEFAULT_WEIGHTS ==
  [engagement_weight |-> 4, activity_weight |-> 3, points_weight |-> 2, streak_weight |-> 1]

\* normalize with 0 for a batch without variance
normalizeFlatToZero(value, range) ==
  IF range.max = range.min THEN 0
  ELSE ((value - range.min) * NormScale) \div (range.max - range.min)

\* normalize(value, range): 0.5 when the batch has no variance
normalize(value, range) ==
  IF range.max = range.min THEN NormScale \div 2
  ELSE ((value - range.min) * NormScale) \div (range.max - range.min)

rangeOf(values) == [min |-> SeqMin(values), max |-> SeqMax(values)]

normalizeMetrics(ps) ==
  IF Len(ps) = 0 THEN <<>>
  ELSE LET engagements == [i \in 1..Len(ps) |-> ps[i].historical_event_engagements]
           activities  == [i \in 1..Len(ps) |-> ps[i].days_active_last_30]
           points      == [i \in 1..Len(ps) |-> ps[i].current_total_points]
           streaks     == [i \in 1..Len(ps) |-> ps[i].current_streak_value]
           ranges == [engagement |-> rangeOf(engagements), activity |-> rangeOf(activities),
                      points |-> rangeOf(points), streak |-> rangeOf(streaks)]
       IN  [i \in 1..Len(ps) |->
              [engagement |-> normalize(ps[i].historical_event_engagements, ranges.engagement),
               activity   |-> normalize(ps[i].days_active_last_30, ranges.activity),
               points     |-> normalize(ps[i].current_total_points, ranges.points),
               streak     |-> normalize(ps[i].current_streak_value, ranges.streak)]]

calculateCompositeScore(normalized, weights) ==
    normalized.engagement * weights.engagement_weight
  + normalized.activity * weights.activity_weight
  + normalized.points * weights.points_weight
  + normalized.streak * weights.streak_weight

\* { ...object, ...fields }: the fields of object, those of fields in the
\* place of its own or added to them
Spread(object, fields) ==
  [f \in (DOMAIN object) \cup (DOMAIN fields) |->
     IF f \in DOMAIN fields THEN fields[f] ELSE object[f]]

\* { ...player, composite_score: score }
WithScore(p, score) == Spread(p, [composite_score |-> score])

calculatePlayerScores(ps) ==
  LET normalized == normalizeMetrics(ps)
  IN  Built([i \in 1..Len(ps) |->
                WithScore(ps[i], calculateCompositeScore(normalized[i], DEFAULT_WEIGHTS))])

\* RankBefore without the comparison of the player ids
RankBeforeByScoreOnly(a, b) == a.composite_score > b.composite_score

\* the comparator of rankPlayersByScore: score descending, then player_id ascending
RankBefore(a, b) ==
  \/ a.composite_score > b.composite_score
  \/ (a.composite_score = b.composite_score /\ a.player_id < b.player_id)

rankPlayersByScore(scored) ==
  SortBy(scored, [i \in 1..Len(scored) |-> [j \in 1..Len(scored) |-> RankBefore(scored[i], scored[j])]])

\* per-team aggregates: size, total and average score (0 for an empty team);
\* an average is the pair <<numerator, denominator>>
calculateTeamStats(team) ==
  LET scores == [i \in 1..Len(team.players) |-> team.players[i].composite_score]
      total == SeqSum(scores, Len(scores))
  IN  IF Len(team.players) = 0
      THEN [total_score |-> 0, average_score |-> <<0, 1>>, size |-> 0]
      ELSE [total_score |-> total, average_score |-> <<total, Len(team.players)>>,
            size |-> Len(team.players)]

\* { ...team, ...stats }
WithStats(team) ==
  LET stats == calculateTeamStats(team)
  IN  [team_id |-> team.team_id, players |-> team.players,
       total_score |-> stats.total_score, average_score |-> stats.average_score,
       size |-> stats.size]

RECURSIVE SeqProduct(_, _)
SeqProduct(s, n) == IF n = 0 THEN 1 ELSE s[n] * SeqProduct(s, n - 1)

RatLess(a, b) == IF a[2] = b[2] THEN a[1] < b[1] ELSE a[1] * b[2] < b[1] * a[2]

RatLeq(a, b) == ~RatLess(b, a)

\* maxPossibleVariance = 0.25 = 1 / 4
maxPossibleVarianceInverse == 4

\* calculateTeamBalance with the team totals in the place of the team means
calculateTeamBalanceOfTotals(ts) ==
  LET k == Len(ts)
      total == Built([i \in 1..k |->
                 LET teamPlayers == ts[i].players
                     scores == [q \in 1..Len(teamPlayers) |-> teamPlayers[q].composite_score]
                 IN  SeqSum(scores, Len(scores))])
      size == [i \in 1..k |-> IF Len(ts[i].players) = 0 THEN 1 ELSE Len(ts[i].players)]
      P == SeqProduct(size, k)
      m == Built([i \in 1..k |-> total[i] * P])
      M == SeqSum(m, k)
      dev2 == [i \in 1..k |-> (k * m[i] - M) * (k * m[i] - M)]
      D == k * k * k * P * P * ScoreScale * ScoreScale
      V == SeqSum(dev2, k)
      raw == D - maxPossibleVarianceInverse * V
  IN  [mean_scores |-> [i \in 1..k |-> <<total[i], 1>>],
       score_variance |-> <<V, D>>,
       balance_coefficient |-> <<IF raw > 0 THEN raw ELSE 0, D>>]

\* calculateTeamBalance: every quantity over the common denominator of the
\* call.  With k teams, P the product of the non-empty team sizes and
\* m[i] = mean[i] * P:  mean[i] - overallMean = (k*m[i] - sum(m)) / (k*P), in
\* score units, so variance = sum((k*m[i] - sum(m))^2) / (k^3 * P^2 * ScoreScale^2).
calculateTeamBalance(ts) ==
  LET k == Len(ts)
      team == Built([i \in 1..k |->
                LET teamPlayers == ts[i].players
                    scores == [q \in 1..Len(teamPlayers) |-> teamPlayers[q].composite_score]
                IN  [total |-> SeqSum(scores, Len(scores)),
                     size |-> IF Len(teamPlayers) = 0 THEN 1 ELSE Len(teamPlayers)]])
      size == [i \in 1..k |-> team[i].size]
      total == [i \in 1..k |-> team[i].total]
      P == SeqProduct(size, k)
      m == Built([i \in 1..k |-> total[i] * (P \div size[i])])
      M == SeqSum(m, k)
      dev2 == [i \in 1..k |-> (k * m[i] - M) * (k * m[i] - M)]
      D == k * k * k * P * P * ScoreScale * ScoreScale
      V == SeqSum(dev2, k)
      raw == D - maxPossibleVarianceInverse * V
  IN  [mean_scores |-> [i \in 1..k |-> <<total[i], size[i]>>],
       score_variance |-> <<V, D>>,
       balance_coefficient |-> <<IF raw > 0 THEN raw ELSE 0, D>>]

----------------------------------------------------------------------------
(* EnhancedMetricsCalculator: the Level A + Level B scores.  An enhanced     *)
(* score is an integer count of 1/EnhancedScale                              *)

EnhancedScale == 1000 * NormScale

\* DEFAULT_ENHANCED_WEIGHTS, in hundredths
DEFAULT_ENHANCED_WEIGHTS ==
  [engagement_weight |-> 25, activity_weight |-> 20, points_weight |-> 15, streak_weight |-> 5,
   event_quality_weight |-> 20, communication_weight |-> 10, spending_behavior_weight |-> 5]

\* normalizeAllMetrics: every metric over its minimum and maximum in the batch
normalizeAllMetrics(ps) ==
  LET metric(i, field) ==
        normalize(ps[i][field], rangeOf([j \in 1..Len(ps) |-> ps[j][field]]))
  IN  [i \in 1..Len(ps) |->
         [engagement |-> metric(i, "historical_event_engagements"),
          activity |-> metric(i, "days_active_last_30"),
          points |-> metric(i, "current_total_points"),
          streak |-> metric(i, "current_streak_value"),
          eventVariety |-> metric(i, "event_variety_score"),
          highValueEvents |-> metric(i, "high_value_events_ratio"),
          engagementConsistency |-> metric(i, "engagement_consistency"),
          recentEventActivity |-> metric(i, "recent_event_activity"),
          messageEngagement |-> metric(i, "message_engagement_ratio"),
          conversationParticipation |-> metric(i, "conversation_participation"),
          messageLengthAvg |-> metric(i, "message_length_avg"),
          replyEngagementRate |-> metric(i, "reply_engagement_rate"),
          spendingEfficiency |-> metric(i, "spending_efficiency"),
          consumableUsageRate |-> metric(i, "consumable_usage_rate"),
          spendingFrequency |-> metric(i, "spending_frequency"),
          investmentVsConsumption |-> metric(i, "investment_vs_consumption")]]

\* calculateLevelAScore, in 1/EnhancedScale (the weights are hundredths)
calculateLevelAScore(normalized, weights) ==
  10 * ( normalized.engagement * weights.engagement_weight
       + normalized.activity * weights.activity_weight
       + normalized.points * weights.points_weight
       + normalized.streak * weights.streak_weight)

\* calculateLevelBScore, in 1/EnhancedScale (the factors 0.2, 0.3 and 0.4 are
\* tenths, the weights hundredths)
calculateLevelBScore(normalized, weights) ==
  LET eventQualityScore ==
        ( normalized.eventVariety * 3
        + normalized.highValueEvents * 3
        + normalized.engagementConsistency * 2
        + normalized.recentEventActivity * 2) * weights.event_quality_weight
      communicationScore ==
        ( normalized.messageEngagement * 3
        + normalized.conversationParticipation * 3
        + normalized.messageLengthAvg * 2
        + normalized.replyEngagementRate * 2) * weights.communication_weight
      spendingScore ==
        ( normalized.spendingEfficiency * 4
        + normalized.consumableUsageRate * 2
        + normalized.spendingFrequency * 2
        + normalized.investmentVsConsumption * 2) * weights.spending_behavior_weight
  IN  eventQualityScore + communicationScore + spendingScore

calculateEnhancedPlayerScores(enhancedPlayers) ==
  LET normalizedMetrics == normalizeAllMetrics(enhancedPlayers)
  IN  Built([i \in 1..Len(enhancedPlayers) |->
        LET levelAScore == calculateLevelAScore(normalizedMetrics[i], DEFAULT_ENHANCED_WEIGHTS)
            levelBScore == calculateLevelBScore(normalizedMetrics[i], DEFAULT_ENHANCED_WEIGHTS)
            compositeScore == levelAScore + levelBScore
        IN  Spread(enhancedPlayers[i],
                   [composite_score |-> compositeScore,
                    level_a_score |-> levelAScore,
                    level_b_score |-> levelBScore])])

----------------------------------------------------------------------------
(* TeamShuffler: the seeded pre-shuffle *)

AbsDiff(a, b) == IF a >= b THEN a - b ELSE b - a

\* the comparator (a, b) => b.composite_score - a.composite_score
ScoreBefore(a, b) == a.composite_score > b.composite_score

\* the threshold 0.01 of deterministicPreShuffle, in hundredths
ScoreThresholdPercent == 1

\* sorted.forEach of groupPlayersByScore, from 1-based index i on; the threshold
\* is given in hundredths: scoreDiff <= threshold
RECURSIVE groupLoop(_, _, _, _, _)
groupLoop(sorted, threshold, i, groups, currentGroup) ==
  IF i > Len(sorted)
  THEN IF Len(currentGroup) > 0 THEN Append(groups, currentGroup) ELSE groups
  ELSE LET player == sorted[i]
           scoreDiff == AbsDiff(currentGroup[1].composite_score, player.composite_score)
       IN  IF Len(currentGroup) = 0
           THEN groupLoop(sorted, threshold, i + 1, groups, <<player>>)
           ELSE IF scoreDiff * 100 <= threshold * ScoreScale
           THEN groupLoop(sorted, threshold, i + 1, groups, Append(currentGroup, player))
           ELSE groupLoop(sorted, threshold, i + 1, Append(groups, currentGroup), <<player>>)

groupPlayersByScore(ps, threshold) ==
  LET sorted == SortBy(ps, [i \in 1..Len(ps) |-> [j \in 1..Len(ps) |-> ScoreBefore(ps[i], ps[j])]])
  IN  groupLoop(sorted, threshold, 1, <<>>, <<>>)

\* scoreGroups.map(group => this.rng.shuffle(group)).flat(), from group g on;
\* returns the flattened players and the generator state
RECURSIVE shuffleGroups(_, _, _, _)
shuffleGroups(scoreGroups, g, flat, state) ==
  IF g > Len(scoreGroups) THEN [players |-> flat, rng |-> state]
  ELSE LET shuffled == shuffle(scoreGroups[g], state)
       IN  CASE Len(shuffled.array) = Len(scoreGroups[g]) ->
                  shuffleGroups(scoreGroups, g + 1, flat \o shuffled.array, shuffled.rng)

deterministicPreShuffle(ps, state) ==
  shuffleGroups(groupPlayersByScore(ps, ScoreThresholdPercent), 1, <<>>, state)

----------------------------------------------------------------------------
(* TeamBalancer *)

\* the elements of s at the indices of K, in index order
SubSeqAt(s, K) ==
  Built([p \in 1..Cardinality(K) |-> s[CHOOSE i \in K : Cardinality({j \in K : j <= i}) = p]])

\* snakeState with the end of the row tested one team early: the walk turns
\* at the last but one team and never reaches the last
RECURSIVE snakeStateTurnsEarly(_, _)
snakeStateTurnsEarly(r, nTeams) ==
  IF r = 0 THEN [currentTeam |-> 0, direction |-> 1]
  ELSE LET prev == snakeStateTurnsEarly(r - 1, nTeams)
           moved == prev.currentTeam + prev.direction
       IN  IF moved >= nTeams - 1
           THEN [currentTeam |-> nTeams - 2, direction |-> -1]
           ELSE IF moved < 0
           THEN [currentTeam |-> 0, direction |-> 1]
           ELSE [currentTeam |-> moved, direction |-> prev.direction]

\* snakeState dealing round robin: at the end of the row the walk starts
\* again at team 0, still moving forward
RECURSIVE snakeStateRoundRobin(_, _)
snakeStateRoundRobin(r, nTeams) ==
  IF r = 0 THEN [currentTeam |-> 0, direction |-> 1]
  ELSE LET prev == snakeStateRoundRobin(r - 1, nTeams)
           moved == prev.currentTeam + prev.direction
       IN  IF moved >= nTeams
           THEN [currentTeam |-> 0, direction |-> 1]
           ELSE IF moved < 0
           THEN [currentTeam |-> 0, direction |-> 1]
           ELSE [currentTeam |-> moved, direction |-> prev.direction]

\* currentTeam and direction of the snake walk when the player at 0-based
\* position r is placed
RECURSIVE snakeState(_, _)
snakeState(r, nTeams) ==
  IF r = 0 THEN [currentTeam |-> 0, direction |-> 1]
  ELSE LET prev == snakeState(r - 1, nTeams)
           moved == prev.currentTeam + prev.direction
       IN  IF moved >= nTeams
           THEN [currentTeam |-> nTeams - 1, direction |-> -1]
           ELSE IF moved < 0
           THEN [currentTeam |-> 0, direction |-> 1]
           ELSE [currentTeam |-> moved, direction |-> prev.direction]

\* createBalancedTeams dealing the players in the order given, without
\* ranking them again
createBalancedTeamsAsGiven(scored, nTeams) ==
  LET rankedPlayers == scored
      n == Len(rankedPlayers)
      k == IF nTeams > 0 THEN nTeams ELSE 0
      walk == Built([r \in 1..n |-> snakeState(r - 1, nTeams).currentTeam])
      placed(t) == {r \in 1..n : walk[r] = t - 1}
  IN  IF k = 0 /\ n > 0
      THEN [thrown |-> "TypeError", teams |-> <<>>]
      ELSE [thrown |-> "",
            teams |-> Built([t \in 1..k |->
                         WithStats([team_id |-> t, players |-> SubSeqAt(rankedPlayers, placed(t)),
                                    total_score |-> 0, average_score |-> <<0, 1>>, size |-> 0])])]

\* createBalancedTeams: with no team to index (nTeams <= 0) the first
\* teams[currentTeam].players throws a TypeError
createBalancedTeams(scored, nTeams) ==
  LET rankedPlayers == rankPlayersByScore(scored)
      n == Len(rankedPlayers)
      k == IF nTeams > 0 THEN nTeams ELSE 0
      walk == Built([r \in 1..n |-> snakeState(r - 1, nTeams).currentTeam])
      placed(t) == {r \in 1..n : walk[r] = t - 1}
  IN  IF k = 0 /\ n > 0
      THEN [thrown |-> "TypeError", teams |-> <<>>]
      ELSE [thrown |-> "",
            teams |-> Built([t \in 1..k |->
                         WithStats([team_id |-> t, players |-> SubSeqAt(rankedPlayers, placed(t)),
                                    total_score |-> 0, average_score |-> <<0, 1>>, size |-> 0])])]

\* swapPlayers with player A added to team B and player B left where it is
swapPlayersMove(ts, teamA, playerA, teamB, playerB) ==
  LET playerAData == ts[teamA].players[playerA]
      newTeams == [t \in 1..Len(ts) |->
                     IF t = teamA
                     THEN [ts[t] EXCEPT !.players =
                             SubSeqAt(ts[t].players, (1..Len(ts[t].players)) \ {playerA})]
                     ELSE IF t = teamB
                     THEN [ts[t] EXCEPT !.players = Append(ts[t].players, playerAData)]
                     ELSE ts[t]]
  IN  Built([t \in 1..Len(ts) |-> WithStats(newTeams[t])])

\* swapPlayers with the second assignment lost: team A takes player B, team B
\* keeps player B
swapPlayersOneWay(ts, teamA, playerA, teamB, playerB) ==
  LET playerBData == ts[teamB].players[playerB]
      newTeams == [t \in 1..Len(ts) |->
                     IF t = teamA
                     THEN [ts[t] EXCEPT !.players = [ts[t].players EXCEPT ![playerA] = playerBData]]
                     ELSE ts[t]]
  IN  Built([t \in 1..Len(ts) |-> WithStats(newTeams[t])])

\* swapPlayers with the team_id of the two teams exchanged as well
swapPlayersRelabel(ts, teamA, playerA, teamB, playerB) ==
  LET playerAData == ts[teamA].players[playerA]
      playerBData == ts[teamB].players[playerB]
      newTeams == [t \in 1..Len(ts) |->
                     IF t = teamA
                     THEN [ts[t] EXCEPT !.players = [ts[t].players EXCEPT ![playerA] = playerBData],
                                        !.team_id = ts[teamB].team_id]
                     ELSE IF t = teamB
                     THEN [ts[t] EXCEPT !.players = [ts[t].players EXCEPT ![playerB] = playerAData],
                                        !.team_id = ts[teamA].team_id]
                     ELSE ts[t]]
  IN  Built([t \in 1..Len(ts) |-> WithStats(newTeams[t])])

\* swapPlayers without the statistics of the new teams
swapPlayersStaleStats(ts, teamA, playerA, teamB, playerB) ==
  LET playerAData == ts[teamA].players[playerA]
      playerBData == ts[teamB].players[playerB]
  IN  Built([t \in 1..Len(ts) |->
                IF t = teamA
                THEN [ts[t] EXCEPT !.players = [ts[t].players EXCEPT ![playerA] = playerBData]]
                ELSE IF t = teamB
                THEN [ts[t] EXCEPT !.players = [ts[t].players EXCEPT ![playerB] = playerAData]]
                ELSE ts[t]])

\* swapPlayers, with 1-based team and player indices; the result is a fresh
\* array, the argument is left as it is
swapPlayers(ts, teamA, playerA, teamB, playerB) ==
  LET playerAData == ts[teamA].players[playerA]
      playerBData == ts[teamB].players[playerB]
      newTeams == [t \in 1..Len(ts) |->
                     IF t = teamA
                     THEN [ts[t] EXCEPT !.players = [ts[t].players EXCEPT ![playerA] = playerBData]]
                     ELSE IF t = teamB
                     THEN [ts[t] EXCEPT !.players = [ts[t].players EXCEPT ![playerB] = playerAData]]
                     ELSE ts[t]]
  IN  Built([t \in 1..Len(ts) |-> WithStats(newTeams[t])])

\* swapImproves accepting a swap that leaves the coefficient as it is
swapImprovesOrEqual(newBalance, oldBalance) == RatLeq(oldBalance, newBalance)

\* swapImproves with the comparison turned round
swapImprovesReversed(newBalance, oldBalance) == RatLess(newBalance, oldBalance)

\* newBalance > currentBalance, and
\* currentBalance.balance_coefficient > bestBalance.balance_coefficient
swapImproves(newBalance, oldBalance) == RatLess(oldBalance, newBalance)

\* swapLoop trying the members of team i from the last to the first
RECURSIVE swapLoopLastMemberFirst(_, _, _, _, _, _)
swapLoopLastMemberFirst(ts, roundBalance, i, j, pi, pj) ==
  CASE i > Len(ts) -> [found |-> FALSE, teams |-> <<>>]
    [] i <= Len(ts) /\ j > Len(ts) -> swapLoopLastMemberFirst(ts, roundBalance, i + 1, i + 2, 1, 1)
    [] i <= Len(ts) /\ j <= Len(ts) /\ pi > Len(ts[i].players) ->
         swapLoopLastMemberFirst(ts, roundBalance, i, j + 1, 1, 1)
    [] i <= Len(ts) /\ j <= Len(ts) /\ pi <= Len(ts[i].players) /\ pj > Len(ts[j].players) ->
         swapLoopLastMemberFirst(ts, roundBalance, i, j, pi + 1, 1)
    [] OTHER ->
         LET swappedTeams == swapPlayers(ts, i, Len(ts[i].players) + 1 - pi, j, pj)
             newBalance == calculateTeamBalance(swappedTeams).balance_coefficient
         IN  IF swapImproves(newBalance, roundBalance)
             THEN [found |-> TRUE, teams |-> swappedTeams]
             ELSE swapLoopLastMemberFirst(ts, roundBalance, i, j, pi, pj + 1)

\* the nested loops of attemptPlayerSwaps, entered at (i, j, pi, pj), 1-based:
\* the first swap that improves on the balance coefficient of the round is
\* returned at once, null when the loops run out
RECURSIVE swapLoop(_, _, _, _, _, _)
swapLoop(ts, roundBalance, i, j, pi, pj) ==
  CASE i > Len(ts) -> [found |-> FALSE, teams |-> <<>>]
    [] i <= Len(ts) /\ j > Len(ts) -> swapLoop(ts, roundBalance, i + 1, i + 2, 1, 1)
    [] i <= Len(ts) /\ j <= Len(ts) /\ pi > Len(ts[i].players) ->
         swapLoop(ts, roundBalance, i, j + 1, 1, 1)
    [] i <= Len(ts) /\ j <= Len(ts) /\ pi <= Len(ts[i].players) /\ pj > Len(ts[j].players) ->
         swapLoop(ts, roundBalance, i, j, pi + 1, 1)
    [] OTHER ->
         LET swappedTeams == swapPlayers(ts, i, pi, j, pj)
             newBalance == calculateTeamBalance(swappedTeams).balance_coefficient
         IN  IF swapImproves(newBalance, roundBalance)
             THEN [found |-> TRUE, teams |-> swappedTeams]
             ELSE swapLoop(ts, roundBalance, i, j, pi, pj + 1)

\* attemptPlayerSwaps with the loop over i started one team late
attemptPlayerSwapsFromSecondTeam(ts) ==
  LET roundBalance == calculateTeamBalance(ts).balance_coefficient
  IN  CASE roundBalance \in Int \X Int -> swapLoop(ts, roundBalance, 2, 3, 1, 1)

attemptPlayerSwaps(ts) ==
  LET roundBalance == calculateTeamBalance(ts).balance_coefficient
  IN  CASE roundBalance \in Int \X Int -> swapLoop(ts, roundBalance, 1, 2, 1, 1)

\* teams.map((team) => ({ ...team, players: [...team.players] }))
copyTeams(ts) == [t \in 1..Len(ts) |-> ts[t]]

\* calculateFairness: the size balance of the statistics (the score statistics
\* and the justification text are not represented)
calculateFairness(ts) ==
  LET teamSizes == [t \in 1..Len(ts) |-> ts[t].size]
      minSize == SeqMin(teamSizes)
      maxSize == SeqMax(teamSizes)
  IN  [size_balance |-> [min_size |-> minSize, max_size |-> maxSize,
                         size_difference |-> maxSize - minSize]]

----------------------------------------------------------------------------
(* Inputs of the seed derivation *)

RECURSIVE Interval(_, _)
Interval(a, b) == IF a > b THEN <<>> ELSE <<a>> \o Interval(a + 1, b)

Reverse(s) == [i \in 1..Len(s) |-> s[Len(s) + 1 - i]]

RECURSIVE ListsOver(_)
ListsOver(S) ==
  {<<>>} \cup UNION {{<<x>> \o t : t \in ListsOver(S \ {x})} : x \in S}

\* the player ids of the two populations of tests/shuffler.test.ts
Ids1to12 == Interval(1, 12)

Ids13to24 == Interval(13, 24)

SeedIdLists ==
  ListsOver(1..MaxSeedId)
    \cup {Interval(1, m) : m \in 1..12}
    \cup {Ids13to24, Reverse(Ids1to12), Reverse(Ids13to24), Reverse(Interval(1, 8))}

Seed42 == NumOf(42)

\* 3000000000: a seed above 2^31
SeedLarge == <<45776, 24064>>

UserSeeds == {Undefined, Seed42, NumOf(7), SeedLarge}

----------------------------------------------------------------------------
(* Inputs of assignTeams *)

Player(id, engagements) ==
  [player_id |-> id,
   historical_event_engagements |-> engagements,
   days_active_last_30 |-> 0,
   current_total_points |-> 0,
   current_streak_value |-> 0]

\* the populations of n players: ids 1..n in any order, as validated upstream
\* (unique ids, non-negative attributes)
PlayerLists(n) ==
  {[p \in 1..n |-> Player(ids[p], e[p])] :
      ids \in {l \in ListsOver(1..n) : Len(l) = n}, e \in [1..n -> 0..MaxAttr]}

AllPlayerLists == UNION {PlayerLists(n) : n \in 0..MaxPlayers}

PipelineSeeds == {Undefined, Seed42, SeedLarge}

\* optimizeTeamBalance(teams): the default of maxIterations
DefaultMaxIterations == 100

\* nothing has been called on the validator, the ranking, the generator or
\* the rate limiter
BlankUtil ==
  /\ totalPlayers = 0
  /\ expectedTeamSizes = Undefined
  /\ rankResult = Undefined
  /\ shuffleArray = Undefined
  /\ shuffleResult = Undefined
  /\ rateLimitTracker = Undefined
  /\ lastCall = Undefined
  /\ allowedInWindow = Undefined

\* assignTeams has not been called
BlankCall ==
  /\ playerIds = Undefined
  /\ dataSeed = Undefined
  /\ finalSeed = Undefined
  /\ rng = Undefined
  /\ playersWithScores = Undefined
  /\ teams = Undefined
  /\ currentTeams = Undefined
  /\ currentBalance = Undefined
  /\ bestTeams = Undefined
  /\ bestBalance = Undefined
  /\ iterations = 0
  /\ loopI = 0
  /\ optimization = Undefined
  /\ result = Undefined
  /\ thrown = ""

Blank == BlankUtil /\ BlankCall

----------------------------------------------------------------------------
(* Spec: one TeamShuffler, constructed with a seed, and one assignTeams call *)

Init ==
  /\ pc = "call"
  /\ clock = 0
  /\ players \in AllPlayerLists
  /\ targetTeams \in 0..(Len(players) + 1)
  /\ optimizeBalance \in BOOLEAN
  /\ userSeed \in PipelineSeeds
  /\ maxIterations = DefaultMaxIterations
  /\ first = Undefined
  /\ Blank

\* AssignTeams with the empty check left out: the seeds and the generator are
\* made for an empty population too
AssignTeamsUnchecked ==
  /\ pc = "call"
  /\ playerIds' = [p \in 1..Len(players) |-> players[p].player_id]
  /\ dataSeed' = generateDataSeed(playerIds')
  /\ finalSeed' = combineSeed(userSeed, dataSeed')
  /\ rng' = newDeterministicRandom(finalSeed', clock)
  /\ pc' = "score"
  /\ UNCHANGED <<clock, callVars, playersWithScores, teams, maxIterations, optVars, result,
                 thrown, first, utilVars, rateVars>>

\* assignTeams, lines 22-31: the empty check, the seeds and the generator
AssignTeams ==
  /\ pc = "call"
  /\ IF Len(players) = 0
     THEN /\ thrown' = "No players provided for team assignment"
          /\ pc' = "thrown"
          /\ UNCHANGED seedVars
     ELSE /\ playerIds' = [p \in 1..Len(players) |-> players[p].player_id]
          /\ dataSeed' = generateDataSeed(playerIds')
          /\ finalSeed' = combineSeed(userSeed, dataSeed')
          /\ rng' = newDeterministicRandom(finalSeed', clock)
          /\ pc' = "score"
          /\ UNCHANGED thrown
  /\ UNCHANGED <<clock, callVars, playersWithScores, teams, maxIterations, optVars, result, first>>
  /\ UNCHANGED <<utilVars, rateVars>>

\* assignTeams, line 34
CalculatePlayerScores ==
  /\ pc = "score"
  /\ playersWithScores' = calculatePlayerScores(players)
  /\ pc' = "assign"
  /\ UNCHANGED <<clock, callVars, seedVars, teams, maxIterations, optVars, result, thrown, first>>
  /\ UNCHANGED <<utilVars, rateVars>>

\* assignTeams, line 37: createInitialAssignment
CreateInitialAssignment ==
  /\ pc = "assign"
  /\ LET shuffledPlayers == deterministicPreShuffle(playersWithScores, rng)
         built == createBalancedTeams(shuffledPlayers.players, targetTeams)
     IN  /\ rng' = shuffledPlayers.rng
         /\ IF built.thrown # ""
            THEN /\ thrown' = built.thrown
                 /\ pc' = "thrown"
                 /\ UNCHANGED teams
            ELSE /\ teams' = built.teams
                 /\ pc' = IF optimizeBalance THEN "opt_enter" ELSE "fairness"
                 /\ UNCHANGED thrown
  /\ UNCHANGED <<clock, callVars, playerIds, dataSeed, finalSeed, playersWithScores,
                 maxIterations, optVars, result, first>>
  /\ UNCHANGED <<utilVars, rateVars>>

\* the loop condition with <= for <
loopContinuesInclusive(i, maxIter) == i <= maxIter

\* the condition i < maxIterations of the for loop
loopContinues(i, maxIter) == i < maxIter

\* optimizeTeamBalance, lines 177-181
OptimizeEnter ==
  /\ pc = "opt_enter"
  /\ currentTeams' = copyTeams(teams)
  /\ currentBalance' = calculateTeamBalance(currentTeams').balance_coefficient
  /\ bestTeams' = currentTeams'
  /\ bestBalance' = currentBalance'
  /\ iterations' = 0
  /\ loopI' = 0
  /\ pc' = "opt_loop"
  /\ UNCHANGED <<clock, callVars, seedVars, playersWithScores, teams, maxIterations,
                 optimization, result, thrown, first>>
  /\ UNCHANGED <<utilVars, rateVars>>

\* optimizeTeamBalance, lines 183-202: one pass of the for loop
OptimizeIteration ==
  /\ pc = "opt_loop"
  /\ loopContinues(loopI, maxIterations)
  /\ iterations' = iterations + 1
  /\ LET improved == attemptPlayerSwaps(currentTeams)
         newBalance == calculateTeamBalance(improved.teams).balance_coefficient
     IN  IF improved.found
         THEN /\ currentTeams' = improved.teams
              /\ currentBalance' = newBalance
              /\ IF swapImproves(newBalance, bestBalance)
                 THEN bestTeams' = copyTeams(improved.teams) /\ bestBalance' = newBalance
                 ELSE UNCHANGED <<bestTeams, bestBalance>>
              /\ loopI' = loopI + 1
              /\ pc' = "opt_loop"
         ELSE /\ pc' = "opt_break"
              /\ UNCHANGED <<currentTeams, currentBalance, bestTeams, bestBalance, loopI>>
  /\ UNCHANGED <<clock, callVars, seedVars, playersWithScores, teams, maxIterations,
                 optimization, result, thrown, first>>
  /\ UNCHANGED <<utilVars, rateVars>>

\* bestBalance.balance_coefficient - calculateTeamBalance(teams).balance_coefficient,
\* over the common denominator of the two
improvementOf(best, initial) ==
  IF best[2] = initial[2] THEN <<best[1] - initial[1], best[2]>>
  ELSE <<best[1] * initial[2] - initial[1] * best[2], best[2] * initial[2]>>

\* optimizeTeamBalance, lines 204-215: after the loop
OptimizeReturn ==
  /\ \/ pc = "opt_break"
     \/ (pc = "opt_loop" /\ ~loopContinues(loopI, maxIterations))
  /\ optimization' =
       [optimized |-> [t \in 1..Len(bestTeams) |-> WithStats(bestTeams[t])],
        iterations |-> iterations,
        improvement |-> improvementOf(bestBalance, calculateTeamBalance(teams).balance_coefficient)]
  /\ pc' = "opt_returned"
  /\ UNCHANGED <<clock, callVars, seedVars, playersWithScores, teams, maxIterations,
                 currentTeams, currentBalance, bestTeams, bestBalance, iterations, loopI,
                 result, thrown, first>>
  /\ UNCHANGED <<utilVars, rateVars>>

\* assignTeams, lines 42-55: the statistics and the result
ReturnResult ==
  /\ pc \in {"opt_returned", "fairness"}
  /\ LET finalTeams == IF pc = "opt_returned" THEN optimization.optimized ELSE teams
     IN  result' = [teams |-> finalTeams,
                    total_players |-> Len(players),
                    target_teams |-> targetTeams,
                    seed |-> finalSeed,
                    fairness_stats |-> calculateFairness(finalTeams)]
  /\ pc' = "returned"
  /\ UNCHANGED <<clock, callVars, seedVars, playersWithScores, teams, maxIterations, optVars,
                 thrown, first>>
  /\ UNCHANGED <<utilVars, rateVars>>

Next ==
  \/ AssignTeams
  \/ CalculatePlayerScores
  \/ CreateInitialAssignment
  \/ OptimizeEnter
  \/ OptimizeIteration
  \/ OptimizeReturn
  \/ ReturnResult

Spec == Init /\ [][Next]_vars

----------------------------------------------------------------------------
(* SpecPair: two assignTeams calls, one after the other, each on a           *)
(* TeamShuffler of its own.  The second call comes later, with the same team *)
(* count and optimization flag, and with the same players and seed, or the   *)
(* players in another order, or another seed.                                *)

AscendingPlayerLists ==
  UNION {{[p \in 1..n |-> Player(p, e[p])] : e \in [1..n -> 0..MaxAttr]} : n \in 0..MaxPlayers}

\* the list as it is, reversed, and with two neighbours exchanged
Reorderings(ps) == {ps, Reverse(ps)} \cup {SwapAt(ps, i, i + 1) : i \in 1..(Len(ps) - 1)}

InitPair ==
  /\ pc = "call"
  /\ clock = 0
  /\ players \in AscendingPlayerLists
  /\ targetTeams \in 0..(Len(players) + 1)
  /\ optimizeBalance \in BOOLEAN
  /\ userSeed \in PipelineSeeds
  /\ maxIterations = DefaultMaxIterations
  /\ first = Undefined
  /\ Blank

\* the first call is over (returned or thrown): a new TeamShuffler is
\* constructed and assignTeams called on it
Reinvoke ==
  /\ pc \in {"returned", "thrown"}
  /\ first = Undefined
  /\ first' = [players |-> players, userSeed |-> userSeed, result |-> result, thrown |-> thrown]
  /\ \E order \in Reorderings(players), seed \in PipelineSeeds :
       /\ order = players \/ seed = userSeed
       /\ players' = order
       /\ userSeed' = seed
  /\ clock' = clock + 1
  /\ pc' = "call"
  /\ playerIds' = Undefined
  /\ dataSeed' = Undefined
  /\ finalSeed' = Undefined
  /\ rng' = Undefined
  /\ playersWithScores' = Undefined
  /\ teams' = Undefined
  /\ currentTeams' = Undefined
  /\ currentBalance' = Undefined
  /\ bestTeams' = Undefined
  /\ bestBalance' = Undefined
  /\ iterations' = 0
  /\ loopI' = 0
  /\ optimization' = Undefined
  /\ result' = Undefined
  /\ thrown' = ""
  /\ UNCHANGED <<targetTeams, optimizeBalance, maxIterations>>
  /\ UNCHANGED <<utilVars, rateVars>>

NextPair == Next \/ Reinvoke

SpecPair == InitPair /\ [][NextPair]_vars

----------------------------------------------------------------------------
(* SpecOpt: optimizeTeamBalance on its own, on any array of at least one     *)
(* team: any sizes (empty teams and unequal sizes included), scores 0, 0.5   *)
(* and 1, and any maxIterations.                                             *)

OptScores == {0, ScoreScale \div 2, ScoreScale}

\* the teams of sizes size[1..k] holding the players 1..n in order
TeamsOf(size, score) ==
  Built([t \in 1..Len(size) |->
     LET offset == SeqSum(size, t - 1)
     IN  WithStats([team_id |-> t,
                    players |-> [q \in 1..size[t] |->
                                   WithScore(Player(offset + q, 0), score[offset + q])],
                    total_score |-> 0, average_score |-> <<0, 1>>, size |-> 0])])

\* the ways to split n players into k teams, in order
TeamSizes(n, k) == {size \in [1..k -> 0..n] : SeqSum(size, k) = n}

InitOpt ==
  /\ BlankUtil
  /\ pc = "opt_enter"
  /\ clock = 0
  /\ players = <<>>
  /\ targetTeams = 0
  /\ optimizeBalance = TRUE
  /\ userSeed = Undefined
  /\ \E n \in 0..MaxOptPlayers, k \in 1..MaxOptTeams :
       \E size \in TeamSizes(n, k), score \in [1..n -> OptScores] :
         teams = TeamsOf(size, score)
  /\ maxIterations \in 0..MaxIter
  /\ first = Undefined
  /\ playerIds = Undefined
  /\ dataSeed = Undefined
  /\ finalSeed = Undefined
  /\ rng = Undefined
  /\ playersWithScores = Undefined
  /\ currentTeams = Undefined
  /\ currentBalance = Undefined
  /\ bestTeams = Undefined
  /\ bestBalance = Undefined
  /\ iterations = 0
  /\ loopI = 0
  /\ optimization = Undefined
  /\ result = Undefined
  /\ thrown = ""

NextOpt == OptimizeEnter \/ OptimizeIteration \/ OptimizeReturn

SpecOpt == InitOpt /\ [][NextOpt]_vars

\* a step of the call can be taken until the call has returned
OptRunning == pc # "opt_returned"

\* the call runs on, a step that can be taken is taken: weak fairness of
\* NextOpt, with OptRunning for ENABLED <<NextOpt>>_vars
OptFairness == []<>(~OptRunning) \/ []<><<NextOpt>>_vars

SpecOptLive == SpecOpt /\ OptFairness

----------------------------------------------------------------------------
(* SpecSeed: the seed derivation of assignTeams, lines 27-28, on its own *)

InitSeed ==
  /\ BlankUtil
  /\ pc = "seed_call"
  /\ clock = 0
  /\ players = <<>>
  /\ targetTeams = 0
  /\ optimizeBalance = FALSE
  /\ userSeed \in UserSeeds
  /\ maxIterations = DefaultMaxIterations
  /\ first = Undefined
  /\ playerIds \in SeedIdLists
  /\ dataSeed = Undefined
  /\ finalSeed = Undefined
  /\ rng = Undefined
  /\ playersWithScores = Undefined
  /\ teams = Undefined
  /\ currentTeams = Undefined
  /\ currentBalance = Undefined
  /\ bestTeams = Undefined
  /\ bestBalance = Undefined
  /\ iterations = 0
  /\ loopI = 0
  /\ optimization = Undefined
  /\ result = Undefined
  /\ thrown = ""

GenerateDataSeed ==
  /\ pc = "seed_call"
  /\ dataSeed' = generateDataSeed(playerIds)
  /\ playerIds' = sortedIdsCopy(playerIds).playerIds
  /\ pc' = "seed_data"
  /\ UNCHANGED <<clock, callVars, finalSeed, rng, playersWithScores, teams, maxIterations,
                 optVars, result, thrown, first>>
  /\ UNCHANGED <<utilVars, rateVars>>

CombineSeed ==
  /\ pc = "seed_data"
  /\ finalSeed' = combineSeed(userSeed, dataSeed)
  /\ pc' = "seed_done"
  /\ UNCHANGED <<clock, callVars, playerIds, dataSeed, rng, playersWithScores, teams,
                 maxIterations, optVars, result, thrown, first>>
  /\ UNCHANGED <<utilVars, rateVars>>

NextSeed == GenerateDataSeed \/ CombineSeed

SpecSeed == InitSeed /\ [][NextSeed]_vars

----------------------------------------------------------------------------
(* SpecScore: calculatePlayerScores on its own, on batches whose four scored *)
(* attributes all vary                                                        *)

MaxScorePlayers == 2   \* SpecScore: batches of 0..MaxScorePlayers players

\* the batches of n players, ids 1..n: the engagements and the active days are
\* in 0..MaxAttr, the points and the streak are 0 or MaxAttr
ScoreBatches(n) ==
  {[p \in 1..n |->
      [player_id |-> p,
       historical_event_engagements |-> a[p][1],
       days_active_last_30 |-> a[p][2],
       current_total_points |-> a[p][3],
       current_streak_value |-> a[p][4]]] :
     a \in [1..n -> (0..MaxAttr) \X (0..MaxAttr) \X {0, MaxAttr} \X {0, MaxAttr}]}

InitScore ==
  /\ pc = "score"
  /\ clock = 0
  /\ \E n \in 0..MaxScorePlayers : players \in ScoreBatches(n)
  /\ targetTeams = 0
  /\ optimizeBalance = FALSE
  /\ userSeed = Undefined
  /\ maxIterations = DefaultMaxIterations
  /\ first = Undefined
  /\ Blank

SpecScore == InitScore /\ [][CalculatePlayerScores]_vars

----------------------------------------------------------------------------
(* SpecRank: rankPlayersByScore on its own, on scored players in any order,  *)
(* ids that repeat included                                                  *)

MaxRankPlayers == 3    \* SpecRank: 0..MaxRankPlayers scored players, ids in 1..n

ScoredLists(n) ==
  {[p \in 1..n |-> WithScore(Player(id[p], 0), score[p])] :
     id \in [1..n -> 1..n], score \in [1..n -> OptScores]}

InitRank ==
  /\ pc = "rank_call"
  /\ clock = 0
  /\ players = <<>>
  /\ targetTeams = 0
  /\ optimizeBalance = FALSE
  /\ userSeed = Undefined
  /\ maxIterations = DefaultMaxIterations
  /\ first = Undefined
  /\ \E n \in 0..MaxRankPlayers : playersWithScores \in ScoredLists(n)
  /\ BlankUtil
  /\ playerIds = Undefined
  /\ dataSeed = Undefined
  /\ finalSeed = Undefined
  /\ rng = Undefined
  /\ teams = Undefined
  /\ currentTeams = Undefined
  /\ currentBalance = Undefined
  /\ bestTeams = Undefined
  /\ bestBalance = Undefined
  /\ iterations = 0
  /\ loopI = 0
  /\ optimization = Undefined
  /\ result = Undefined
  /\ thrown = ""

\* rankPlayersByScore(playersWithScores): the sort works on the copy
\* [...playersWithScores], the argument is not written to
RankPlayersByScore ==
  /\ pc = "rank_call"
  /\ rankResult' = rankPlayersByScore(playersWithScores)
  /\ pc' = "ranked"
  /\ UNCHANGED <<clock, callVars, seedVars, playersWithScores, teams, maxIterations, optVars,
                 result, thrown, first, totalPlayers, expectedTeamSizes, shuffleArray,
                 shuffleResult, rateVars>>

SpecRank == InitRank /\ [][RankPlayersByScore]_vars

----------------------------------------------------------------------------
(* SpecShuffle: DeterministicRandom.shuffle on its own, on any array (equal  *)
(* elements included) and any state of the generator                         *)

MaxShuffleLen == 3     \* SpecShuffle: arrays of 0..MaxShuffleLen elements of 1..n

InitShuffle ==
  /\ pc = "shuffle_call"
  /\ clock = 0
  /\ players = <<>>
  /\ targetTeams = 0
  /\ optimizeBalance = FALSE
  /\ userSeed = Undefined
  /\ maxIterations = DefaultMaxIterations
  /\ first = Undefined
  /\ \E n \in 0..MaxShuffleLen : shuffleArray \in [1..n -> 1..n]
  /\ rng \in 0..(RngModulus - 1)
  /\ shuffleResult = Undefined
  /\ totalPlayers = 0
  /\ expectedTeamSizes = Undefined
  /\ rankResult = Undefined
  /\ rateLimitTracker = Undefined
  /\ lastCall = Undefined
  /\ allowedInWindow = Undefined
  /\ playerIds = Undefined
  /\ dataSeed = Undefined
  /\ finalSeed = Undefined
  /\ playersWithScores = Undefined
  /\ teams = Undefined
  /\ currentTeams = Undefined
  /\ currentBalance = Undefined
  /\ bestTeams = Undefined
  /\ bestBalance = Undefined
  /\ iterations = 0
  /\ loopI = 0
  /\ optimization = Undefined
  /\ result = Undefined
  /\ thrown = ""

\* this.rng.shuffle(array): the loop works on the copy [...array], the
\* argument is not written to; the generator is left advanced
Shuffle ==
  /\ pc = "shuffle_call"
  /\ LET done == shuffle(shuffleArray, rng)
     IN  shuffleResult' = done.array /\ rng' = done.rng
  /\ pc' = "shuffled"
  /\ UNCHANGED <<clock, callVars, playerIds, dataSeed, finalSeed, playersWithScores, teams,
                 maxIterations, optVars, result, thrown, first, totalPlayers,
                 expectedTeamSizes, rankResult, shuffleArray, rateVars>>

SpecShuffle == InitShuffle /\ [][Shuffle]_vars

----------------------------------------------------------------------------
(* security.ts: the rate limiter.  Date.now() is the clock; it moves on      *)
(* between calls, through instants at the start of a window-length period    *)
(* and shortly after it.                                                     *)

RATE_LIMIT_WINDOW == 60000

RATE_LIMIT_MAX_FILES == 10

MaxPeriods == 2        \* SpecRate: the clock reaches up to MaxPeriods window lengths

MaxOffset == 1         \* SpecRate: and 0..MaxOffset milliseconds beyond each

ClientIds == {"default", "client1"}

Instants == {w * RATE_LIMIT_WINDOW + e : w \in 0..MaxPeriods, e \in 0..MaxOffset}

\* checkRateLimit with an expired window reset to count 0 but not restarted:
\* the old windowStart is kept
checkRateLimitKeepsWindow(tracker, clientId, now) ==
  LET existingClient == tracker[clientId]
      client == IF existingClient # Undefined THEN existingClient
                ELSE [count |-> 0, windowStart |-> now]
  IN  IF now - client.windowStart > RATE_LIMIT_WINDOW
      THEN [thrown |-> "",
            tracker |-> [tracker EXCEPT ![clientId] =
                           [count |-> 0, windowStart |-> client.windowStart]]]
      ELSE IF client.count >= RATE_LIMIT_MAX_FILES
      THEN [thrown |-> "Rate limit exceeded: too many file operations", tracker |-> tracker]
      ELSE [thrown |-> "",
            tracker |-> [tracker EXCEPT ![clientId] =
                           [count |-> client.count + 1, windowStart |-> client.windowStart]]]

\* checkRateLimit(clientId) at Date.now() = now: the error thrown ("" when the
\* call returns) and the tracker as the call leaves it
checkRateLimit(tracker, clientId, now) ==
  LET existingClient == tracker[clientId]
      client == IF existingClient # Undefined THEN existingClient
                ELSE [count |-> 0, windowStart |-> now]
  IN  IF now - client.windowStart > RATE_LIMIT_WINDOW
      THEN [thrown |-> "",
            tracker |-> [tracker EXCEPT ![clientId] = [count |-> 0, windowStart |-> now]]]
      ELSE IF client.count >= RATE_LIMIT_MAX_FILES
      THEN [thrown |-> "Rate limit exceeded: too many file operations", tracker |-> tracker]
      ELSE [thrown |-> "",
            tracker |-> [tracker EXCEPT ![clientId] =
                           [count |-> client.count + 1, windowStart |-> client.windowStart]]]

\* the map is empty, and the clients that will call are known: the tracker has
\* an entry for each, Undefined (what Map.get returns) until the first call
InitRateOf(clients) ==
  /\ pc = "rate"
  /\ clock = 0
  /\ players = <<>>
  /\ targetTeams = 0
  /\ optimizeBalance = FALSE
  /\ userSeed = Undefined
  /\ maxIterations = DefaultMaxIterations
  /\ first = Undefined
  /\ BlankCall
  /\ totalPlayers = 0
  /\ expectedTeamSizes = Undefined
  /\ rankResult = Undefined
  /\ shuffleArray = Undefined
  /\ shuffleResult = Undefined
  /\ rateLimitTracker = [c \in clients |-> Undefined]
  /\ lastCall = Undefined
  /\ allowedInWindow = [c \in clients |-> 0]

InitRate == InitRateOf(ClientIds)

\* a call of checkRateLimit(clientId).  lastCall keeps the call: who called,
\* when, the entry found and the error thrown.  allowedInWindow counts, for
\* each client, the calls that returned at an instant of the client's current
\* window [windowStart, windowStart + RATE_LIMIT_WINDOW]: a call that starts
\* a new window returns at the first instant of that window
CheckRateLimit(clientId) ==
  /\ pc = "rate"
  /\ clientId \in DOMAIN rateLimitTracker
  /\ LET call == checkRateLimit(rateLimitTracker, clientId, clock)
         opensWindow == call.tracker[clientId].windowStart = clock
                          /\ call.tracker[clientId].count = 0
     IN  /\ rateLimitTracker' = call.tracker
         /\ lastCall' = [clientId |-> clientId, now |-> clock,
                         existingClient |-> rateLimitTracker[clientId],
                         thrown |-> call.thrown]
         /\ allowedInWindow' =
              IF call.thrown # "" THEN allowedInWindow
              ELSE IF opensWindow THEN [allowedInWindow EXCEPT ![clientId] = 1]
              ELSE [allowedInWindow EXCEPT ![clientId] = @ + 1]
  /\ UNCHANGED <<pc, clock, callVars, seedVars, playersWithScores, teams, maxIterations,
                 optVars, result, thrown, first, utilVars>>

\* time passes: Date.now() returns a later instant from now on
Tick ==
  /\ pc = "rate"
  /\ \E later \in Instants : later > clock /\ clock' = later
  /\ UNCHANGED <<pc, callVars, seedVars, playersWithScores, teams, maxIterations, optVars,
                 result, thrown, first, utilVars, rateVars>>

NextRate == (\E clientId \in ClientIds : CheckRateLimit(clientId)) \/ Tick

SpecRate == InitRate /\ [][NextRate]_vars

\* SpecRateLive: one client; time runs on, and the client goes on calling
InitRateLive == InitRateOf({"default"})

SpecRateLive ==
  /\ InitRateLive
  /\ [][NextRate]_vars
  /\ WF_vars(Tick)
  /\ \A clientId \in ClientIds : WF_vars(CheckRateLimit(clientId))

----------------------------------------------------------------------------
(* DataValidator: the team constraints and the expected team sizes *)

MaxTotalPlayers == 13  \* SpecValidate: totalPlayers is in 0..MaxTotalPlayers

MaxTargetTeams == 10   \* SpecValidate: targetTeams is in -1..MaxTargetTeams

\* the messages of the InvalidTeamConstraintsError thrown by
\* validateTeamConstraints, in the order of its checks
InvalidTeamConstraintsError ==
  <<"InvalidTeamConstraintsError: Number of teams must be at least 2",
    "InvalidTeamConstraintsError: Cannot create ${targetTeams} teams with only ${totalPlayers} players",
    "InvalidTeamConstraintsError: Too few players (${totalPlayers}) for ${targetTeams} teams. Need at least ${targetTeams * 2} players",
    "InvalidTeamConstraintsError: Team size difference would exceed 1 player (${maxTeamSizeDiff})">>

\* Math.ceil(a / b) for b > 0
CeilDiv(a, b) == -((-a) \div b)

\* validateTeamConstraints without the check of two players a team
validateTeamConstraintsNoMinimum(total, nTeams) ==
  IF nTeams < 2 THEN InvalidTeamConstraintsError[1]
  ELSE IF nTeams > total THEN InvalidTeamConstraintsError[2]
  ELSE IF CeilDiv(total, nTeams) - (total \div nTeams) > 1 THEN InvalidTeamConstraintsError[4]
  ELSE ""

\* validateTeamConstraints: the error it throws, "" when it returns
validateTeamConstraints(total, nTeams) ==
  IF nTeams < 2 THEN InvalidTeamConstraintsError[1]
  ELSE IF nTeams > total THEN InvalidTeamConstraintsError[2]
  ELSE IF total < nTeams * 2 THEN InvalidTeamConstraintsError[3]
  ELSE IF CeilDiv(total, nTeams) - (total \div nTeams) > 1 THEN InvalidTeamConstraintsError[4]
  ELSE ""

\* calculateExpectedTeamSizes with the remainder given to the last teams
calculateExpectedTeamSizesLast(total, nTeams) ==
  IF nTeams <= 0 THEN <<>>
  ELSE LET baseSize == total \div nTeams
           remainder == total % nTeams
       IN  [i \in 1..nTeams |-> baseSize + (IF nTeams - i < remainder THEN 1 ELSE 0)]

\* calculateExpectedTeamSizes: the loop index i of the code is i - 1 here; with
\* no team asked for (nTeams <= 0) the loop does not run
calculateExpectedTeamSizes(total, nTeams) ==
  IF nTeams <= 0 THEN <<>>
  ELSE LET baseSize == total \div nTeams
           remainder == total % nTeams
       IN  [i \in 1..nTeams |-> baseSize + (IF i - 1 < remainder THEN 1 ELSE 0)]

\* SpecValidate: one call of validateTeamConstraints or of
\* calculateExpectedTeamSizes, on any pair of numbers
InitValidate ==
  /\ pc = "validator_call"
  /\ clock = 0
  /\ players = <<>>
  /\ targetTeams \in (-1)..MaxTargetTeams
  /\ optimizeBalance = FALSE
  /\ userSeed = Undefined
  /\ maxIterations = DefaultMaxIterations
  /\ first = Undefined
  /\ BlankCall
  /\ totalPlayers \in 0..MaxTotalPlayers
  /\ expectedTeamSizes = Undefined
  /\ rankResult = Undefined
  /\ shuffleArray = Undefined
  /\ shuffleResult = Undefined
  /\ rateLimitTracker = Undefined
  /\ lastCall = Undefined
  /\ allowedInWindow = Undefined

ValidateTeamConstraints ==
  /\ pc = "validator_call"
  /\ thrown' = validateTeamConstraints(totalPlayers, targetTeams)
  /\ pc' = "validated"
  /\ UNCHANGED <<clock, callVars, seedVars, playersWithScores, teams, maxIterations, optVars,
                 result, first, utilVars, rateVars>>

CalculateExpectedTeamSizes ==
  /\ pc = "validator_call"
  /\ expectedTeamSizes' = calculateExpectedTeamSizes(totalPlayers, targetTeams)
  /\ pc' = "sized"
  /\ UNCHANGED <<clock, callVars, seedVars, playersWithScores, teams, maxIterations, optVars,
                 result, thrown, first, totalPlayers, rankResult, shuffleArray, shuffleResult,
                 rateVars>>

NextValidate == ValidateTeamConstraints \/ CalculateExpectedTeamSizes

SpecValidate == InitValidate /\ [][NextValidate]_vars

----------------------------------------------------------------------------
(* SpecBuild: createBalancedTeams on its own, on scored players with ids in  *)
(* ascending or descending order and any scores, dealt to one or more teams; *)
(* and on the populations of 7 and of 17 players with one score for all      *)

MaxBuildPlayers == 5   \* SpecBuild: 0..MaxBuildPlayers scored players

MaxBuildTeams == 3     \* SpecBuild: 1..MaxBuildTeams teams

\* the larger populations of the size scenarios: 7 and 17 players
ScenarioSizes == {7, 17}

InitBuild ==
  /\ pc = "build_call"
  /\ clock = 0
  /\ players = <<>>
  /\ targetTeams \in 1..MaxBuildTeams
  /\ optimizeBalance = FALSE
  /\ userSeed = Undefined
  /\ maxIterations = DefaultMaxIterations
  /\ first = Undefined
  /\ \E n \in (0..MaxBuildPlayers) \cup ScenarioSizes, ascending \in BOOLEAN :
       \E score \in IF n <= MaxBuildPlayers THEN [1..n -> OptScores]
                    ELSE {[p \in 1..n |-> s] : s \in OptScores} :
         playersWithScores =
           [p \in 1..n |-> WithScore(Player(IF ascending THEN p ELSE n + 1 - p, 0), score[p])]
  /\ BlankUtil
  /\ playerIds = Undefined
  /\ dataSeed = Undefined
  /\ finalSeed = Undefined
  /\ rng = Undefined
  /\ teams = Undefined
  /\ currentTeams = Undefined
  /\ currentBalance = Undefined
  /\ bestTeams = Undefined
  /\ bestBalance = Undefined
  /\ iterations = 0
  /\ loopI = 0
  /\ optimization = Undefined
  /\ result = Undefined
  /\ thrown = ""

\* createBalancedTeams(playersWithScores, targetTeams)
CreateBalancedTeams ==
  /\ pc = "build_call"
  /\ LET built == createBalancedTeams(playersWithScores, targetTeams)
     IN  /\ teams' = built.teams
         /\ thrown' = built.thrown
  /\ pc' = "built"
  /\ UNCHANGED <<clock, callVars, seedVars, playersWithScores, maxIterations, optVars,
                 result, first, utilVars, rateVars>>

SpecBuild == InitBuild /\ [][CreateBalancedTeams]_vars

----------------------------------------------------------------------------
(* SpecLevelB: processTeamAssignment with Level B enabled, from the enhanced *)
(* players that FeatureEngineering.enhancePlayersWithLevelB has produced:    *)
(* the enhanced scores are calculated and assignTeams is called on the       *)
(* players that carry them                                                   *)

MaxLevelBPlayers == 3  \* SpecLevelB: 1..MaxLevelBPlayers players, ids 1..n

\* a player with its Level B features: the event variety and the spending
\* efficiency vary, the other ten features are 0
EnhancedPlayer(id, engagements, variety, efficiency) ==
  Spread(Player(id, engagements),
         [event_variety_score |-> variety,
          high_value_events_ratio |-> 0,
          engagement_consistency |-> 0,
          recent_event_activity |-> 0,
          message_engagement_ratio |-> 0,
          conversation_participation |-> 0,
          message_length_avg |-> 0,
          reply_engagement_rate |-> 0,
          spending_efficiency |-> efficiency,
          consumable_usage_rate |-> 0,
          spending_frequency |-> 0,
          investment_vs_consumption |-> 0])

InitLevelB ==
  /\ pc = "level_b"
  /\ clock = 0
  /\ \E n \in 1..MaxLevelBPlayers :
       /\ \E e \in [1..n -> 0..MaxAttr], v \in [1..n -> 0..MaxAttr], s \in [1..n -> 0..1] :
            players = [p \in 1..n |-> EnhancedPlayer(p, e[p], v[p], s[p])]
       /\ targetTeams \in 1..n
  /\ optimizeBalance \in BOOLEAN
  /\ userSeed = Seed42
  /\ maxIterations = DefaultMaxIterations
  /\ first = Undefined
  /\ Blank

\* processTeamAssignment, lines 156-175: the enhanced scores are calculated
\* and the players that carry them become the players of the assignTeams call
EnhanceWithLevelB ==
  /\ pc = "level_b"
  /\ players' = calculateEnhancedPlayerScores(players)
  /\ pc' = "call"
  /\ UNCHANGED <<clock, targetTeams, optimizeBalance, userSeed, seedVars, playersWithScores,
                 teams, maxIterations, optVars, result, thrown, first, utilVars, rateVars>>

NextLevelB == EnhanceWithLevelB \/ Next

SpecLevelB == InitLevelB /\ [][NextLevelB]_vars

----------------------------------------------------------------------------
(* Properties of assignTeams, under Spec *)

\* the teams exist from the return of createBalancedTeams on
TeamsBuilt == pc \in {"opt_enter", "opt_loop", "opt_break", "opt_returned", "fairness", "returned"}

ValidTeamCount == Len(players) >= 2 /\ 2 <= targetTeams /\ targetTeams <= Len(players)

SizeBalanced(ts, n) ==
  /\ \A a, b \in 1..Len(ts) : Len(ts[a].players) - Len(ts[b].players) <= 1
  /\ SeqSum([t \in 1..Len(ts) |-> Len(ts[t].players)], Len(ts)) = n

\* C1: for n >= 2 players and 2 <= k <= n teams the build does not throw, and
\* the teams createBalancedTeams builds, and those assignTeams returns, have
\* sizes that differ by at most 1 and add up to n
C1_SizeBalance ==
  ValidTeamCount =>
    /\ pc # "thrown"
    /\ TeamsBuilt => SizeBalanced(teams, Len(players))
    /\ pc = "returned" =>
         /\ SizeBalanced(result.teams, Len(players))
         /\ result.fairness_stats.size_balance.size_difference <= 1

\* three players returned in two teams of different sizes
C1_Witness ==
  /\ pc = "returned"
  /\ Len(players) = 3
  /\ targetTeams = 2
  /\ \E a, b \in 1..Len(result.teams) :
       Len(result.teams[a].players) # Len(result.teams[b].players)

\* the places (team, position) of the returned teams that hold player id
PlacesOf(ts, id) ==
  {<<t, q>> \in (1..Len(ts)) \X (1..Len(players)) :
     q <= Len(ts[t].players) /\ ts[t].players[q].player_id = id}

\* C2: assignTeams returns exactly targetTeams teams, team t with team_id t,
\* and every input player is at exactly one place of exactly one team, with
\* no place left for anyone else; with the optimization and without it
C2_Partition ==
  pc = "returned" =>
    /\ Len(result.teams) = targetTeams
    /\ \A t \in 1..Len(result.teams) : result.teams[t].team_id = t
    /\ \A p \in 1..Len(players) :
         Cardinality(PlacesOf(result.teams, players[p].player_id)) = 1
    /\ SeqSum([t \in 1..Len(result.teams) |-> Len(result.teams[t].players)],
              Len(result.teams)) = Len(players)

\* a result of three players after the optimizer has accepted a swap
C2_Witness ==
  /\ pc = "returned"
  /\ optimizeBalance
  /\ Len(players) = 3
  /\ optimization.iterations >= 2
  /\ optimization.optimized # teams

\* bit i of a 32-bit number held as two limbs
Bit32(a, i) == IF i < 16 THEN Bit(a[2], i) ELSE Bit(a[1] % Limb, i - 16)

\* C7: with no caller seed the effective seed is the data seed; with one it
\* lies in 0 .. 2^32-1 and each of its 32 bits is the exclusive or of that bit
\* of the caller seed and of the data seed; the result carries it as its seed
\* (looked at when combineSeed has returned and when assignTeams has)
C7_EffectiveSeed ==
  /\ pc \in {"score", "returned"} =>
       IF userSeed = Undefined
       THEN finalSeed = dataSeed
       ELSE /\ finalSeed[1] \in 0..(Limb - 1)
            /\ finalSeed[2] \in 0..(Limb - 1)
            /\ \A i \in 0..31 :
                 Bit32(finalSeed, i) = (Bit32(userSeed, i) + Bit32(dataSeed, i)) % 2
  /\ pc = "returned" => result.seed = finalSeed

\* a result whose seed is 2^31 or more: the caller seed 3000000000 has bit 31
\* set and the data seed has not
C7_Witness ==
  /\ pc = "returned"
  /\ userSeed = SeedLarge
  /\ dataSeed[1] < 2^15
  /\ result.seed[1] >= 2^15

\* C10: with fewer than 2 teams or more teams than players asked for, building
\* the teams fails and no teams are returned
C10_BuilderRejects ==
  (Len(players) > 0 /\ (targetTeams < 2 \/ targetTeams > Len(players))) =>
    /\ ~TeamsBuilt
    /\ teams = Undefined

\* C11: a call with no players fails at once with the error of the empty
\* check: no seed is derived, no generator made, no score computed, no team
\* built and nothing returned
C11_EmptyPopulation ==
  Len(players) = 0 =>
    /\ pc \in {"call", "thrown"}
    /\ pc = "thrown" => thrown = "No players provided for team assignment"
    /\ playerIds = Undefined
    /\ dataSeed = Undefined
    /\ finalSeed = Undefined
    /\ rng = Undefined
    /\ playersWithScores = Undefined
    /\ teams = Undefined
    /\ optimization = Undefined
    /\ result = Undefined

\* the call with no players and a caller seed has thrown
C11_Witness ==
  /\ pc = "thrown"
  /\ Len(players) = 0
  /\ userSeed = Seed42
  /\ thrown = "No players provided for team assignment"

\* the statistics of every team of ts are those of its players: size is their
\* number, total_score the sum of their composite scores, average_score the
\* total over the size, and 0 for a team without players
AggregatesConsistent(ts) ==
  \A t \in 1..Len(ts) :
    LET team == ts[t]
        n == Len(team.players)
        sum == SeqSum([q \in 1..n |-> team.players[q].composite_score], n)
    IN  /\ team.size = n
        /\ team.total_score = sum
        /\ team.average_score[2] > 0
        /\ IF n = 0 THEN team.average_score[1] = 0
           ELSE team.average_score[1] * n = sum * team.average_score[2]

\* C27: in the teams createBalancedTeams returns, in the teams at hand after
\* every accepted swap of the optimizer, and in the teams optimizeTeamBalance
\* returns (and assignTeams with them), every team has size = number of its
\* players, total_score = sum of their composite_score and average_score =
\* total_score / size, 0 for an empty team
C27_Aggregates ==
  /\ TeamsBuilt => AggregatesConsistent(teams)
  /\ pc \in {"opt_loop", "opt_break", "opt_returned"} =>
       AggregatesConsistent(currentTeams) /\ AggregatesConsistent(bestTeams)
  /\ pc \in {"opt_returned", "returned"} /\ optimizeBalance =>
       AggregatesConsistent(optimization.optimized)
  /\ pc = "returned" => AggregatesConsistent(result.teams)

\* three players in two teams, returned after the optimizer accepted a swap;
\* the teams have the totals and averages of their new players
C27_Witness ==
  /\ pc = "returned"
  /\ optimizeBalance
  /\ Len(players) = 3
  /\ targetTeams = 2
  /\ optimization.iterations >= 2
  /\ \E t \in 1..2 : result.teams[t].total_score # teams[t].total_score
  /\ \E t \in 1..2 : result.teams[t].size = 2 /\ result.teams[t].average_score[2] = 2

----------------------------------------------------------------------------
(* Properties of the scoring, under SpecScore *)

Attributes ==
  {"historical_event_engagements", "days_active_last_30", "current_total_points",
   "current_streak_value"}

\* the normalized value of each attribute, by the name of the raw attribute
NormalizedOf(normalized) ==
  [historical_event_engagements |-> normalized.engagement,
   days_active_last_30 |-> normalized.activity,
   current_total_points |-> normalized.points,
   current_streak_value |-> normalized.streak]

\* C15: in a batch that is not empty every normalized value lies in 0 .. 1,
\* the least raw value of an attribute maps to 0 and the greatest to 1, an
\* attribute that is the same for all maps to exactly 0.5, and every composite
\* score under the default weights lies in 0 .. 1
C15_Normalized ==
  (pc = "assign" /\ Len(players) > 0) =>
    LET normalized == normalizeMetrics(players)
        n == Len(players)
    IN  /\ Len(normalized) = n
        /\ Len(playersWithScores) = n
        /\ \A p \in 1..n :
             /\ playersWithScores[p].composite_score \in 0..ScoreScale
             /\ \A a \in Attributes :
                  LET value == NormalizedOf(normalized[p])[a]
                      least == \A q \in 1..n : players[p][a] <= players[q][a]
                      greatest == \A q \in 1..n : players[p][a] >= players[q][a]
                  IN  /\ value \in 0..NormScale
                      /\ (least /\ greatest) => 2 * value = NormScale
                      /\ (least /\ ~greatest) => value = 0
                      /\ (greatest /\ ~least) => value = NormScale

\* two players: one attribute is the same for both, and one player is the
\* least in an attribute and the greatest in another
C15_Witness ==
  /\ pc = "assign"
  /\ Len(players) = 2
  /\ players[1].current_streak_value = players[2].current_streak_value
  /\ players[1].historical_event_engagements < players[2].historical_event_engagements
  /\ players[1].days_active_last_30 > players[2].days_active_last_30
  /\ playersWithScores[1].composite_score > 0
  /\ playersWithScores[1].composite_score < playersWithScores[2].composite_score

----------------------------------------------------------------------------
(* Properties of the ranking, under SpecRank *)

\* how often x occurs in the array s
Occurrences(s, x) == Cardinality({i \in 1..Len(s) : s[i] = x})

IsPermutationOf(s, t) ==
  /\ Len(s) = Len(t)
  /\ \A i \in 1..Len(t) : Occurrences(s, t[i]) = Occurrences(t, t[i])

\* the array s in every order
AllOrders(s) ==
  {[i \in 1..Len(s) |-> s[order[i]]] :
     order \in {l \in ListsOver(1..Len(s)) : Len(l) = Len(s)}}

UniqueIds(s) == \A i, j \in 1..Len(s) : s[i].player_id = s[j].player_id => i = j

\* C16: the ranking is a permutation of its argument, by composite score
\* descending and among equal scores by player_id ascending, and the argument
\* is left as it was; with unique ids every earlier player is strictly before
\* every later one and the ranking is the same for every order of the argument
C16_Ranking ==
  /\ [](pc = "ranked" =>
          /\ IsPermutationOf(rankResult, playersWithScores)
          /\ \A i, j \in 1..Len(rankResult) :
               i < j =>
                 /\ rankResult[i].composite_score >= rankResult[j].composite_score
                 /\ rankResult[i].composite_score = rankResult[j].composite_score
                      => rankResult[i].player_id <= rankResult[j].player_id
          /\ UniqueIds(playersWithScores) =>
               /\ \A i, j \in 1..Len(rankResult) :
                    i < j =>
                      \/ rankResult[i].composite_score > rankResult[j].composite_score
                      \/ rankResult[i].player_id < rankResult[j].player_id
               /\ \A other \in AllOrders(playersWithScores) :
                    rankPlayersByScore(other) = rankResult)
  /\ [][playersWithScores' = playersWithScores]_vars

\* three players of one score handed over with the ids 3, 1, 2 and ranked 1, 2, 3
C16_Witness ==
  /\ pc = "ranked"
  /\ Len(playersWithScores) = 3
  /\ [i \in 1..3 |-> playersWithScores[i].player_id] = <<3, 1, 2>>
  /\ \A i \in 1..3 : playersWithScores[i].composite_score = ScoreScale
  /\ [i \in 1..3 |-> rankResult[i].player_id] = <<1, 2, 3>>

----------------------------------------------------------------------------
(* Properties of the shuffle, under SpecShuffle *)

\* the generator state after n draws
RECURSIVE AfterDraws(_, _)
AfterDraws(state, n) == IF n <= 0 THEN state ELSE rngAdvance(AfterDraws(state, n - 1))

\* the Fisher-Yates walk after its first steps: step t exchanges the 0-based
\* index i = Len(a) - t with the index randomInt(0, i) of the t-th draw
RECURSIVE WalkAfter(_, _, _)
WalkAfter(a, state, steps) ==
  IF steps = 0 THEN a
  ELSE LET before == WalkAfter(a, state, steps - 1)
           i == Len(a) - steps
           j == randomInt(AfterDraws(state, steps - 1), 0, i)
       IN  [p \in 1..Len(a) |->
              IF p = i + 1 THEN before[j + 1] ELSE IF p = j + 1 THEN before[i + 1] ELSE before[p]]

\* the generator state the shuffle started from: the walk has drawn once for
\* every index from the last down to 1
ShuffleStartedFrom(state) ==
  AfterDraws(state, Len(shuffleArray) - 1) = rng

\* C17: the shuffled array has the length and the elements of the argument,
\* each as often as the argument has it; it is the result of the walk from the
\* last index down to 1 that exchanges index i with index randomInt(0, i); and
\* the argument is left as it was
C17_Shuffle ==
  /\ [](pc = "shuffled" =>
          /\ Len(shuffleResult) = Len(shuffleArray)
          /\ \A x \in Range(shuffleArray) \cup Range(shuffleResult) :
               Cardinality({i \in 1..Len(shuffleResult) : shuffleResult[i] = x})
                 = Cardinality({i \in 1..Len(shuffleArray) : shuffleArray[i] = x})
          /\ \E state \in 0..(RngModulus - 1) :
               /\ ShuffleStartedFrom(state)
               /\ shuffleResult = WalkAfter(shuffleArray, state, Len(shuffleArray) - 1))
  /\ [][shuffleArray' = shuffleArray]_vars

\* the array 1, 2, 3 shuffled into another order
C17_Witness ==
  /\ pc = "shuffled"
  /\ shuffleArray = <<1, 2, 3>>
  /\ shuffleResult = <<3, 1, 2>>

----------------------------------------------------------------------------
(* Properties of the rate limiter, under SpecRate and SpecRateLive *)

RateLimitExceeded == "Rate limit exceeded: too many file operations"

\* the last call found its client at the limit, in a window not yet expired
FoundExhausted ==
  /\ lastCall # Undefined
  /\ lastCall.existingClient # Undefined
  /\ lastCall.existingClient.count >= RATE_LIMIT_MAX_FILES
  /\ lastCall.now - lastCall.existingClient.windowStart <= RATE_LIMIT_WINDOW

\* C18: for each client at most RATE_LIMIT_MAX_FILES calls return within one
\* window; a call that finds its client at the limit throws the rate limit
\* error, and a call that throws leaves the tracker as it was
C18_RateLimit ==
  /\ \A c \in DOMAIN allowedInWindow : allowedInWindow[c] <= RATE_LIMIT_MAX_FILES
  /\ FoundExhausted => lastCall.thrown = RateLimitExceeded
  /\ (lastCall # Undefined /\ lastCall.thrown # "") =>
       /\ lastCall.thrown = RateLimitExceeded
       /\ rateLimitTracker[lastCall.clientId] = lastCall.existingClient

\* the last call came more than RATE_LIMIT_WINDOW after the start of the
\* window of its client
FoundExpired ==
  /\ lastCall # Undefined
  /\ lastCall.existingClient # Undefined
  /\ lastCall.now - lastCall.existingClient.windowStart > RATE_LIMIT_WINDOW

\* a call of the client would throw now
Blocked(c) ==
  /\ rateLimitTracker[c] # Undefined
  /\ rateLimitTracker[c].count >= RATE_LIMIT_MAX_FILES
  /\ clock - rateLimitTracker[c].windowStart <= RATE_LIMIT_WINDOW

\* the clock of the model can still pass the end of the window of the client
WindowCanExpire(c) ==
  \E later \in Instants : later - rateLimitTracker[c].windowStart > RATE_LIMIT_WINDOW

\* the client has been let through by a call that started a new window
LetThrough(c) ==
  /\ lastCall # Undefined
  /\ lastCall.clientId = c
  /\ lastCall.thrown = ""
  /\ rateLimitTracker[c] = [count |-> 0, windowStart |-> lastCall.now]

\* C19: a call made more than RATE_LIMIT_WINDOW after the windowStart of its
\* client does not throw and leaves the client with count 0 in a window that
\* starts at the time of the call; and as time runs on and the client goes on
\* calling, a client at its limit is let through again
C19_WindowReset ==
  /\ [](FoundExpired =>
          /\ lastCall.thrown = ""
          /\ rateLimitTracker[lastCall.clientId] = [count |-> 0, windowStart |-> lastCall.now])
  /\ (Blocked("default") /\ WindowCanExpire("default")) ~> LetThrough("default")

\* a client that was at its limit has been let through by a call one
\* millisecond after the end of its window
C19_Witness ==
  /\ FoundExpired
  /\ lastCall.existingClient.count = RATE_LIMIT_MAX_FILES
  /\ lastCall.now = lastCall.existingClient.windowStart + RATE_LIMIT_WINDOW + 1
  /\ LetThrough(lastCall.clientId)

----------------------------------------------------------------------------
(* Properties of the DataValidator, under SpecValidate *)

\* C12: validateTeamConstraints throws an InvalidTeamConstraintsError exactly
\* when targetTeams < 2, or targetTeams > totalPlayers, or
\* totalPlayers < 2 * targetTeams, and returns for every other pair, among them
\* (12, 3), (4, 2) and (7, 3)
C12_TeamConstraints ==
  pc = "validated" =>
    /\ (thrown # "") <=>
          \/ targetTeams < 2
          \/ targetTeams > totalPlayers
          \/ totalPlayers < 2 * targetTeams
    /\ thrown # "" => thrown \in Range(InvalidTeamConstraintsError)
    /\ <<totalPlayers, targetTeams>> \in {<<12, 3>>, <<4, 2>>, <<7, 3>>} => thrown = ""

\* 7 players and 3 teams have been accepted
C12_Witness ==
  /\ pc = "validated"
  /\ totalPlayers = 7
  /\ targetTeams = 3
  /\ thrown = ""

----------------------------------------------------------------------------
(* Properties of createBalancedTeams, under SpecBuild *)

\* the team index of the snake distribution in closed form: rows of k
\* positions, dealt forward in even rows and backward in odd rows
SnakeIndex(r, k) ==
  IF (r \div k) % 2 = 0 THEN r % k ELSE k - 1 - (r % k)

\* the dealing sequence: the scored players as ranked by rankPlayersByScore
DealingSequence == rankPlayersByScore(playersWithScores)

\* C20: createBalancedTeams places the player at 0-based position r of the
\* dealing sequence on team index r mod k when floor(r / k) is even and on
\* team index k - 1 - (r mod k) when floor(r / k) is odd (0,1,...,k-1,k-1,
\* ...,1,0,0,1,...): the player is on that team, after the players dealt to
\* the team before it, and the teams hold nobody else
C20_SnakeDistribution ==
  pc = "built" =>
    LET k == targetTeams
        n == Len(DealingSequence)
        rowOf(t) == {q \in 0..(n - 1) : SnakeIndex(q, k) = t}
    IN  /\ thrown = ""
        /\ Len(teams) = k
        /\ \A t \in 1..k : Len(teams[t].players) = Cardinality(rowOf(t - 1))
        /\ \A r \in 0..(n - 1) :
             LET t == SnakeIndex(r, k)
                 place == Cardinality({q \in rowOf(t) : q <= r})
             IN  teams[t + 1].players[place] = DealingSequence[r + 1]

\* five players, not given in ranked order, dealt to two teams: the walk
\* 0,1,1,0,0 turns at both ends
C20_Witness ==
  /\ pc = "built"
  /\ targetTeams = 2
  /\ Len(playersWithScores) = 5
  /\ playersWithScores[1].composite_score < playersWithScores[5].composite_score
  /\ DealingSequence # playersWithScores
  /\ teams[1].players = <<DealingSequence[1], DealingSequence[4], DealingSequence[5]>>
  /\ teams[2].players = <<DealingSequence[2], DealingSequence[3]>>

\* the sizes of the teams, in team_id order
SizesOf(ts) == [t \in 1..Len(ts) |-> ts[t].size]

\* the given numbers in descending order
RECURSIVE Descending(_)
Descending(sizes) ==
  IF Len(sizes) = 0 THEN <<>>
  ELSE LET at == CHOOSE i \in 1..Len(sizes) : \A j \in 1..Len(sizes) : sizes[i] >= sizes[j]
       IN  <<sizes[at]>> \o Descending(SubSeqAt(sizes, (1..Len(sizes)) \ {at}))

BuiltForValidCount ==
  /\ pc = "built"
  /\ 2 <= targetTeams
  /\ targetTeams <= Len(playersWithScores)

----------------------------------------------------------------------------
(* Properties of createInitialAssignment, under Spec *)

\* the teams ts hold the players of seq dealt to k teams along the snake
\* walk, the r-th player of seq being the r-th player dealt
DealtAlong(ts, seq, k) ==
  LET rowOf(t) == {q \in 0..(Len(seq) - 1) : SnakeIndex(q, k) = t}
  IN  /\ Len(ts) = k
      /\ \A t \in 1..k : Len(ts[t].players) = Cardinality(rowOf(t - 1))
      /\ \A r \in 0..(Len(seq) - 1) :
           LET t == SnakeIndex(r, k)
               place == Cardinality({q \in rowOf(t) : q <= r})
           IN  ts[t + 1].players[place] = seq[r + 1]

\* C21: the initial assignment deals the players in the order of the
\* concatenated seeded per-band shuffles: the teams createInitialAssignment
\* builds are the shuffled sequence dealt along the snake walk
C21_DealsShuffled ==
  [][(pc = "assign" /\ pc' \in {"opt_enter", "fairness"} /\ targetTeams >= 1) =>
        DealtAlong(teams', deterministicPreShuffle(playersWithScores, rng).players, targetTeams)]_vars

----------------------------------------------------------------------------
(* Properties of the Level B scores, under SpecLevelB *)

\* the composite score of the player, a count of 1/ScoreScale, is its
\* enhanced score level_a_score + level_b_score, a count of 1/EnhancedScale
HasEnhancedScore(player) ==
  player.composite_score * EnhancedScale = (player.level_a_score + player.level_b_score) * ScoreScale

\* C26: the composite score that EnhancedMetricsCalculator has computed,
\* level_a_score + level_b_score, is kept through assignTeams: the players are
\* ranked and dealt with it, and every player of the returned teams has it as
\* its composite_score
C26_EnhancedScoreKept ==
  /\ pc \in {"assign", "opt_enter", "opt_loop", "opt_break", "opt_returned", "fairness", "returned"} =>
       \A i \in 1..Len(playersWithScores) : HasEnhancedScore(playersWithScores[i])
  /\ pc = "returned" =>
       \A t \in 1..Len(result.teams) : \A q \in 1..Len(result.teams[t].players) :
         HasEnhancedScore(result.teams[t].players[q])

----------------------------------------------------------------------------
(* Properties of the seed derivation, under SpecSeed *)

\* 31 * hash + id of the ids of S in ascending order, from 0, reduced after
\* every id to -2^31 .. 2^31-1 (signed) or to 0 .. 2^32-1 (not signed)
RECURSIVE PolynomialHash(_, _)
PolynomialHash(S, signed) ==
  IF S = {} THEN <<0, 0>>
  ELSE LET id == CHOOSE x \in S : \A y \in S : y <= x
           hash == PolynomialHash(S \ {id}, signed)
       IN  CASE hash \in Int \X Int ->
                  LET sum == Norm(31 * hash[1], 31 * hash[2] + id)
                  IN  IF signed THEN <<((sum[1] + 2^15) % Limb) - 2^15, sum[2]>>
                      ELSE <<sum[1] % Limb, sum[2]>>

AbsoluteValue(a) == IF a[1] < 0 THEN NumSub(<<0, 0>>, a) ELSE a

DataSeedComputed == pc \in {"seed_data", "seed_done"}

\* C8: the data seed is the absolute value of the hash 31 * hash + id folded
\* over the ids in ascending order from 0 and wrapped after every id to a signed
\* 32-bit integer; it depends on the set of the ids only, not on their order;
\* and the list handed to generateDataSeed is never changed
C8_DataSeed ==
  /\ [](DataSeedComputed =>
          dataSeed = AbsoluteValue(PolynomialHash(Range(playerIds), TRUE)))
  /\ [][playerIds' = playerIds]_vars

\* the ids 8, 7, .. 1, handed over in descending order: the hash of 1..8 is
\* -687413116 and the data seed 687413116
C8_Witness ==
  /\ pc = "seed_data"
  /\ playerIds = Reverse(Interval(1, 8))
  /\ PolynomialHash(Range(playerIds), TRUE)[1] < 0
  /\ dataSeed = NumOf(687413116)

\* C8 as worded: the hash is reduced modulo 2^32, to 0 .. 2^32-1, after every
\* id, and the data seed is its absolute value
C8_HashModulo ==
  DataSeedComputed =>
    dataSeed = AbsoluteValue(PolynomialHash(Range(playerIds), FALSE))

\* the other of the two populations 1..12 and 13..24
OtherPopulation == IF playerIds = Ids1to12 THEN Ids13to24 ELSE Ids1to12

\* C9: with the caller seed 42, the effective seed of the ids 1..12 and the
\* effective seed of the ids 13..24 differ
C9_SeedSensitivity ==
  (pc = "seed_done" /\ userSeed = Seed42 /\ playerIds \in {Ids1to12, Ids13to24}) =>
    finalSeed # combineSeed(Seed42, generateDataSeed(OtherPopulation))

\* the effective seed of the ids 1..12 with the caller seed 42
C9_Witness ==
  /\ pc = "seed_done"
  /\ userSeed = Seed42
  /\ playerIds = Ids1to12
  /\ finalSeed = NumOf(1332001552)
  /\ combineSeed(Seed42, generateDataSeed(Ids13to24)) = NumOf(590369296)

----------------------------------------------------------------------------
(* Properties of optimizeTeamBalance, under SpecOpt and SpecOptLive *)

BalanceOf(ts) == calculateTeamBalance(ts).balance_coefficient

TeamMean(team) ==
  IF Len(team.players) = 0 THEN <<0, 1>>
  ELSE <<SeqSum([q \in 1..Len(team.players) |-> team.players[q].composite_score],
                Len(team.players)),
         Len(team.players)>>

\* k^2 times the population variance of the team means, as <<numerator,
\* denominator>>: the sum over the pairs of teams of the squared difference of
\* their means, every difference over the product of all counts and ScoreScale
PairwiseVariance(ts) ==
  LET k == Len(ts)
      mean == [i \in 1..k |-> TeamMean(ts[i])]
      P == SeqProduct([i \in 1..k |-> mean[i][2]], k)
      diff(i, j) == (mean[i][1] * mean[j][2] - mean[j][1] * mean[i][2])
                      * (P \div (mean[i][2] * mean[j][2]))
      squares == [c \in 1..(k * k) |->
                    LET i == ((c - 1) \div k) + 1
                        j == ((c - 1) % k) + 1
                    IN  IF i < j THEN diff(i, j) * diff(i, j) ELSE 0]
  IN  <<SeqSum(squares, k * k), P * P * ScoreScale * ScoreScale>>

SwapCandidates(ts) ==
  UNION {{<<i, j, pi, pj>> : pi \in 1..Len(ts[i].players), pj \in 1..Len(ts[j].players)} :
           <<i, j>> \in {c \in (1..Len(ts)) \X (1..Len(ts)) : c[1] < c[2]}}

ExchangeOf(ts, c) == swapPlayers(ts, c[1], c[3], c[2], c[4])

\* the exchanges that strictly increase the balance coefficient of ts
ImprovingSwaps(ts) ==
  LET balance == BalanceOf(ts)
  IN  {c \in SwapCandidates(ts) : RatLess(balance, BalanceOf(ExchangeOf(ts, c)))}

\* c comes before d in the order ascending i, then j, then pi, then pj
SwapEarlier(c, d) ==
  \/ c[1] < d[1]
  \/ c[1] = d[1] /\ c[2] < d[2]
  \/ c[1] = d[1] /\ c[2] = d[2] /\ c[3] < d[3]
  \/ c[1] = d[1] /\ c[2] = d[2] /\ c[3] = d[3] /\ c[4] < d[4]

FirstImprovingSwap(ts) ==
  LET improving == ImprovingSwaps(ts)
  IN  CHOOSE c \in improving : \A d \in improving : d = c \/ SwapEarlier(c, d)

\* C22: a round of the optimizer accepts at most one swap: the first exchange,
\* in the order ascending i, then ascending j > i, then ascending pi, then
\* ascending pj, that strictly increases the balance coefficient over the
\* teams the round started from; when no exchange does, among them every one
\* that leaves the coefficient equal, the round accepts nothing and the loop ends
C22_FirstImprovement ==
  [][(pc = "opt_loop" /\ pc' \in {"opt_loop", "opt_break"}) =>
        LET improving == ImprovingSwaps(currentTeams)
            firstOf == CHOOSE c \in improving : \A d \in improving : d = c \/ SwapEarlier(c, d)
        IN  IF improving = {}
            THEN pc' = "opt_break" /\ currentTeams' = currentTeams
            ELSE /\ pc' = "opt_loop"
                 /\ currentTeams' = ExchangeOf(currentTeams, firstOf)
                 /\ RatLess(BalanceOf(currentTeams), BalanceOf(currentTeams'))]_vars

\* after the first round: the input teams offered two improving exchanges
\* with different outcomes, and the first in the order was taken
C22_Witness ==
  /\ pc = "opt_loop"
  /\ targetTeams = 0
  /\ loopI = 1
  /\ \E c, d \in ImprovingSwaps(teams) : ExchangeOf(teams, c) # ExchangeOf(teams, d)
  /\ currentTeams = ExchangeOf(teams, FirstImprovingSwap(teams))

\* C23: when optimizeTeamBalance returns with iterations < maxIterations, no
\* exchange of a member of a team i with a member of a team j, i < j, strictly
\* increases the balance coefficient of the teams returned
C23_Convergence ==
  (pc = "opt_returned" /\ optimization.iterations < maxIterations) =>
    ImprovingSwaps(optimization.optimized) = {}

\* a return before maxIterations: the first round accepted a swap, the second
\* round found none and left the loop
C23_Witness ==
  /\ pc = "opt_returned"
  /\ targetTeams = 0
  /\ maxIterations = 3
  /\ optimization.iterations = 2
  /\ loopI = 1
  /\ optimization.optimized # teams

\* who is on which team: the set of player ids of every team
Membership(ts) ==
  [t \in 1..Len(ts) |-> {ts[t].players[q].player_id : q \in 1..Len(ts[t].players)}]

OptimizerAtWork == pc \in {"opt_loop", "opt_break", "opt_returned"}

\* C24: every accepted swap strictly increases the balance coefficient, so the
\* teams after it are no partition seen before in the run (they differ from
\* the teams before the swap and from the input teams, whose coefficient stays
\* strictly below); at every round boundary the best teams kept are the
\* teams at hand, and the teams returned are the teams after the last accepted
\* swap
C24_NoCycling ==
  /\ [][(pc = "opt_loop" /\ currentTeams' # currentTeams) =>
          /\ RatLess(BalanceOf(currentTeams), BalanceOf(currentTeams'))
          /\ RatLess(BalanceOf(teams), BalanceOf(currentTeams'))
          /\ Membership(currentTeams') # Membership(currentTeams)
          /\ Membership(currentTeams') # Membership(teams)]_vars
  /\ [](OptimizerAtWork =>
          /\ bestTeams = currentTeams
          /\ bestBalance = currentBalance
          /\ currentBalance = BalanceOf(currentTeams)
          /\ (loopI = 0) <=> (Membership(currentTeams) = Membership(teams))
          /\ loopI > 0 => RatLess(BalanceOf(teams), currentBalance))
  /\ [](pc = "opt_returned" => optimization.optimized = currentTeams)

\* two swaps accepted in a run, the coefficient higher after each
C24_Witness ==
  /\ pc = "opt_returned"
  /\ targetTeams = 0
  /\ loopI = 2
  /\ RatLess(BalanceOf(teams), BalanceOf(optimization.optimized))
  /\ Membership(optimization.optimized) # Membership(teams)

\* the places of the teams: <<team, position>>
PlacesIn(ts) == UNION {{<<t, q>> : q \in 1..Len(ts[t].players)} : t \in 1..Len(ts)}

\* how often player id occurs in the teams
OccurrencesIn(ts, id) ==
  Cardinality({c \in PlacesIn(ts) : ts[c[1]].players[c[2]].player_id = id})

\* the players of all teams, as records: the same players, each as often
SamePlayers(ts, us) ==
  LET all == {ts[c[1]].players[c[2]] : c \in PlacesIn(ts)}
               \cup {us[c[1]].players[c[2]] : c \in PlacesIn(us)}
      count(xs, x) == Cardinality({c \in PlacesIn(xs) : xs[c[1]].players[c[2]] = x})
  IN  \A x \in all : count(ts, x) = count(us, x)

\* the teams us are the teams ts with players exchanged between teams: the
\* same players, every one of them in exactly one team, and every position
\* with the team_id it had
OnlyExchanged(ts, us) ==
  /\ Len(us) = Len(ts)
  /\ \A t \in 1..Len(ts) : us[t].team_id = ts[t].team_id
  /\ SamePlayers(ts, us)
  /\ \A t \in 1..Len(us) : \A q \in 1..Len(us[t].players) :
       OccurrencesIn(us, us[t].players[q].player_id) = 1

\* C30: optimizeTeamBalance only exchanges players between teams: after any
\* number of rounds the teams at hand, the best teams and the teams returned
\* hold the players of the input teams, each in exactly one team, every
\* position has kept its team_id, and the teams passed in are as they were
C30_OnlyExchanges ==
  /\ [](OptimizerAtWork => OnlyExchanged(teams, currentTeams) /\ OnlyExchanged(teams, bestTeams))
  /\ [](pc = "opt_returned" => OnlyExchanged(teams, optimization.optimized))
  /\ [][teams' = teams]_vars

\* a return after two accepted swaps between three teams
C30_Witness ==
  /\ pc = "opt_returned"
  /\ targetTeams = 0
  /\ Len(teams) = 3
  /\ loopI = 2
  /\ optimization.optimized # teams

\* C5: the iterations counted never exceed maxIterations, so neither does the
\* count returned, and every call of optimizeTeamBalance returns
C5_Termination ==
  /\ [](iterations <= maxIterations)
  /\ [](pc = "opt_returned" => optimization.iterations <= maxIterations)
  /\ <>(pc = "opt_returned")

\* a call cut short by maxIterations = 1: the one round allowed found a swap
C5_Witness ==
  /\ pc = "opt_returned"
  /\ maxIterations = 1
  /\ optimization.iterations = 1
  /\ loopI = 1

SameSizes(ts, us) ==
  /\ Len(ts) = Len(us)
  /\ \A t \in 1..Len(ts) : Len(ts[t].players) = Len(us[t].players) /\ ts[t].size = us[t].size

\* C6: after every accepted swap the teams at hand and the best teams kept
\* have, team by team, the sizes of the input teams, and so have the teams
\* returned
C6_SizesKept ==
  /\ pc \in {"opt_loop", "opt_break", "opt_returned"} =>
       SameSizes(currentTeams, teams) /\ SameSizes(bestTeams, teams)
  /\ pc = "opt_returned" => SameSizes(optimization.optimized, teams)

\* two swaps accepted between teams of sizes that differ
C6_Witness ==
  /\ pc = "opt_loop"
  /\ targetTeams = 0
  /\ loopI = 2
  /\ \E a, b \in 1..Len(teams) : Len(teams[a].players) > Len(teams[b].players)

----------------------------------------------------------------------------
(* Properties of two calls, under SpecPair *)

SecondCallOver == first # Undefined /\ pc \in {"returned", "thrown"}

IdsOf(team) == {team.players[q].player_id : q \in 1..Len(team.players)}

\* C3: a second call with the players, the team count and the caller seed of
\* the first ends as the first did; when they return, the two results carry the
\* same seed and, team by team, the same set of player ids
C3_Determinism ==
  (SecondCallOver /\ players = first.players /\ userSeed = first.userSeed) =>
    /\ thrown = first.thrown
    /\ (pc = "returned") = (first.result # Undefined)
    /\ pc = "returned" =>
         /\ result.seed = first.result.seed
         /\ Len(result.teams) = Len(first.result.teams)
         /\ \A t \in 1..Len(result.teams) :
              IdsOf(result.teams[t]) = IdsOf(first.result.teams[t])

\* two returned calls for the same three players and no caller seed, with
\* the optimization, the second at a later time
C3_Witness ==
  /\ SecondCallOver
  /\ pc = "returned"
  /\ clock > 0
  /\ players = first.players
  /\ userSeed = Undefined
  /\ first.userSeed = Undefined
  /\ Len(players) = 3
  /\ targetTeams = 2
  /\ optimizeBalance

\* both calls have returned
BothReturned == SecondCallOver /\ pc = "returned" /\ first.result # Undefined

\* team by team, the same set of player ids
SameMembership(ts, us) ==
  /\ Len(ts) = Len(us)
  /\ \A t \in 1..Len(ts) : ts[t].team_id = us[t].team_id /\ IdsOf(ts[t]) = IdsOf(us[t])

C29_OrderIrrelevant ==
  (BothReturned /\ userSeed = first.userSeed) =>
    /\ result.seed = first.result.seed
    /\ SameMembership(result.teams, first.result.teams)

\* two returned calls with seed 42 for three players, two of them tied, given
\* in two different orders
C29_Witness ==
  /\ BothReturned
  /\ userSeed = Seed42
  /\ first.userSeed = Seed42
  /\ players # first.players
  /\ Len(players) = 3
  /\ targetTeams = 2
  /\ \E p, q \in 1..3 :
       p # q /\ players[p].historical_event_engagements = players[q].historical_event_engagements
  /\ optimizeBalance

====
